---- MODULE Spec2Model ----
(***************************************************************************)
(* Monte-Carlo trade resampling (createPRNG, runSimulationBatch,           *)
(* calculateStatistics) and the incremental controller of App (start /     *)
(* pause / resume, the batch loop effect, the prop-firm trigger).          *)
(*                                                                         *)
(* Numbers.  TLC integers are 32-bit signed, so an unsigned 32-bit word is *)
(* kept as a pair <<hi, lo>> of 16-bit halves.  Money amounts are integers *)
(* that count eighths of a currency unit (Unit below is the amount 1); the *)
(* pools hold percent returns that take every equity reached to a whole    *)
(* number of eighths, for which the double arithmetic of the source is     *)
(* exact.  Quotients the source computes in floating point are kept as     *)
(* exact fractions <<numerator, denominator>>.                             *)
(***************************************************************************)
EXTENDS Integers, Sequences, FiniteSets, TLC

(***************************************************************************)
(* 32-bit words                                                            *)
(***************************************************************************)
H == 2^16

B8 == 2^8

RECURSIVE Xor16(_, _, _)
Xor16(a, b, n) ==
  IF n = 0 THEN 0
  ELSE ((a + b) % 2) + 2 * Xor16(a \div 2, b \div 2, n - 1)

RECURSIVE Or16(_, _, _)
Or16(a, b, n) ==
  IF n = 0 THEN 0
  ELSE (IF (a % 2) + (b % 2) > 0 THEN 1 ELSE 0) + 2 * Or16(a \div 2, b \div 2, n - 1)

\* a ^ b (the operands are bound to their values, x and y, before their bits are
\* read)
XorW(a, b) ==
  CHOOSE w \in {<<Xor16(x[1], y[1], 16), Xor16(x[2], y[2], 16)>> :
                  x \in {a}, y \in {b}} : TRUE

\* k | a, for a constant 0 <= k < 2^16
OrLow(k, a) == <<a[1], Or16(k, a[2], 16)>>

\* a >>> k, for 0 < k < 16
ShrW(a, k) ==
  <<a[1] \div (2^k), (a[2] \div (2^k)) + (a[1] % (2^k)) * (H \div (2^k))>>

\* (a + b) mod 2^32
AddW(a, b) ==
  LET lo == a[2] + b[2]
  IN  <<(a[1] + b[1] + (lo \div H)) % H, lo % H>>

\* (x * y) mod 2^16 for 16-bit x, y, without leaving 31 bits
MulMod16(x, y) == ((x * (y % B8)) + ((x * (y \div B8)) % B8) * B8) % H

\* the 32-bit product of two 16-bit numbers, as a word
Mul16(x, y) ==
  LET p0 == x * (y % B8)
      p1 == x * (y \div B8)
  IN  AddW(<<p0 \div H, p0 % H>>, <<p1 \div B8, (p1 % B8) * B8>>)

\* the low 32 bits of the product of the words x and y
Product(x, y) ==
  LET low   == Mul16(x[2], y[2])
      cross == (MulMod16(x[1], y[2]) + MulMod16(x[2], y[1])) % H
  IN  <<(low[1] + cross) % H, low[2]>>

\* Math.imul(a, b): the low 32 bits of the product
Imul(a, b) == CHOOSE w \in {Product(x, y) : x \in {a}, y \in {b}} : TRUE

\* seed | 0 (ToInt32), as the unsigned word with the same bits
ToInt32(seed) ==
  IF seed >= 0 THEN <<seed \div H, seed % H>>
  ELSE LET m == (seed + 2147483647) + 1
       IN  <<(m \div H) + 32768, m % H>>

\* 0x6D2B79F5
INCREMENT == <<27947, 31221>>

(***************************************************************************)
(* createPRNG: the closure's only state is `state`.  A generator is the    *)
(* word its closure holds; Mulberry32 is one call of the closure.          *)
(***************************************************************************)
createPRNG(seed) == ToInt32(seed)

\* a variant of Advance: the state is a counter of the calls
AdvanceByOne(state) == AddW(state, <<0, 1>>)

\* state after one more call
Advance(state) == AddW(state, INCREMENT)

\* t = Math.imul(state ^ state >>> 15, 1 | state)
Mix1(s) == Imul(XorW(s, ShrW(s, 15)), OrLow(1, s))

\* t = t + Math.imul(t ^ t >>> 7, 61 | t) ^ t
Mix2(t) ==
  CHOOSE w \in {XorW(AddW(t, p), t) : p \in {Imul(XorW(t, ShrW(t, 7)), OrLow(61, t))}} : TRUE

\* (t ^ t >>> 14) >>> 0
Mix3(t) == XorW(t, ShrW(t, 14))

\* the output word of a call that left the state at s; the call returns
\* OutputWord(s) / 4294967296
OutputWord(s) ==
  CHOOSE w \in {Mix3(t2) : t2 \in {Mix2(t1) : t1 \in {Mix1(s0) : s0 \in {s}}}} : TRUE

\* Math.floor(rng() * n) for the output word w (rng() = w / 4294967296)
FloorTimes(w, n) == (w[1] * n + ((w[2] * n) \div H)) \div H

(***************************************************************************)
(* Fractions <<n, d>> with d >= 0.  <<n, 0>> with n > 0 is +Infinity and   *)
(* <<0, 0>> is NaN; cross-multiplication then orders them as IEEE          *)
(* comparison does (every comparison with NaN is false).                   *)
(***************************************************************************)
Abs(x) == IF x < 0 THEN -x ELSE x

RECURSIVE Gcd(_, _)
Gcd(a, b) == IF b = 0 THEN a ELSE Gcd(b, a % b)

\* x / y in lowest terms
Reduced(x, y) ==
  LET g == Gcd(Abs(x), Abs(y))
  IN  IF g = 0 THEN <<0, 0>>
      ELSE IF y < 0 THEN <<(-x) \div g, (-y) \div g>>
      ELSE <<x \div g, y \div g>>

\* n / d (the operands are bound to their values before they are divided)
Frac(n, d) == CHOOSE f \in {Reduced(x, y) : x \in {n}, y \in {d}} : TRUE

FracGt(a, b) == a[1] * b[2] > b[1] * a[2]

FracLe(a, b) == a[1] * b[2] <= b[1] * a[2]

(***************************************************************************)
(* runSimulationBatch                                                      *)
(***************************************************************************)
\* the amount 1, in the eighths that amounts are counted in
Unit == 8

\* trades.map(t => riskModel === 'percent_equity' ? t.pnlPercent / 100 : t.pnl); the
\* decimal return is kept as its number of hundredths
PnlPool(trades, riskModel) ==
  [k \in 1..Len(trades) |->
     IF riskModel = "percent_equity" THEN trades[k].pnlPercent
     ELSE trades[k].pnl]

\* the locals of one run before its first trade
RunStart(initialEquity, rng) ==
  [rng |-> rng, currentEquity |-> initialEquity, peakEquity |-> initialEquity,
   maxDrawdown |-> 0, winCount |-> 0, grossProfit |-> 0, grossLoss |-> 0,
   equityCurve |-> <<initialEquity>>, isRuined |-> FALSE,
   currentConsecutiveLosses |-> 0, maxConsecutiveLosses |-> 0,
   simulationPnls |-> <<>>, exited |-> FALSE]

\* a variant of RuinExit: the early exit taken under either risk model
RuinExitAnyModel(riskModel, equity) == equity <= 0

\* if (riskModel === 'percent_equity' && currentEquity <= 1) break, inside
\* if (currentEquity <= 0)
RuinExit(riskModel, equity) ==
  equity <= 0 /\ riskModel = "percent_equity" /\ equity <= Unit

\* pnlPool[Math.floor(randomGenerator() * pnlPool.length)], for a call of the
\* generator that leaves its state at rng2
TradeValue(pnlPool, rng2) ==
  CHOOSE v \in {pnlPool[FloorTimes(w, Len(pnlPool)) + 1] : w \in {OutputWord(rng2)}} : TRUE

\* percent_equity: currentEquity * tradeValue, for tradeValue in hundredths;
\* fixed_pnl: tradeValue
TradePnl(riskModel, currentEquity, tradeValue) ==
  IF riskModel = "percent_equity" THEN (currentEquity * tradeValue) \div 100
  ELSE tradeValue

\* a variant of Ruined: the flag follows the equity and is cleared by a recovery
RuinedWhileBelow(isRuined, equity) == equity <= 0

\* if (currentEquity <= 0) isRuined = true
Ruined(isRuined, equity) == isRuined \/ equity <= 0

\* the rest of the iteration, for the trade's P&L
BookTrade(riskModel, r, rng2, tradePnl) ==
  LET equity   == r.currentEquity + tradePnl
      peak     == IF equity > r.peakEquity THEN equity ELSE r.peakEquity
      streak   == IF tradePnl > 0 THEN 0 ELSE r.currentConsecutiveLosses + 1
  IN  [rng |-> rng2,
       currentEquity |-> equity,
       peakEquity |-> peak,
       maxDrawdown |-> IF peak - equity > r.maxDrawdown THEN peak - equity
                       ELSE r.maxDrawdown,
       winCount |-> IF tradePnl > 0 THEN r.winCount + 1 ELSE r.winCount,
       grossProfit |-> IF tradePnl > 0 THEN r.grossProfit + tradePnl ELSE r.grossProfit,
       grossLoss |-> IF tradePnl > 0 THEN r.grossLoss ELSE r.grossLoss + Abs(tradePnl),
       equityCurve |-> Append(r.equityCurve, equity),
       isRuined |-> Ruined(r.isRuined, equity),
       currentConsecutiveLosses |-> streak,
       maxConsecutiveLosses |->
         IF streak > r.maxConsecutiveLosses THEN streak ELSE r.maxConsecutiveLosses,
       simulationPnls |-> Append(r.simulationPnls, tradePnl),
       exited |-> RuinExit(riskModel, equity)]

\* one iteration of the trade loop: one call of the generator, one trade (the
\* trade's P&L is bound to its value before it is booked)
TradeStep(pnlPool, riskModel, r) ==
  CHOOSE w \in {BookTrade(riskModel, r, Advance(r.rng), tradePnl) :
                  tradePnl \in {TradePnl(riskModel, r.currentEquity,
                                         TradeValue(pnlPool, Advance(r.rng)))}} : TRUE

\* for (j = 0; j < tradesPerSimulation; j++) { ... break ... }
RECURSIVE TradeLoop(_, _, _, _, _)
TradeLoop(pnlPool, riskModel, tradesPerSimulation, r, j) ==
  IF j >= tradesPerSimulation \/ r.exited THEN r
  ELSE CHOOSE w \in {TradeLoop(pnlPool, riskModel, tradesPerSimulation, next, j + 1) :
                        next \in {TradeStep(pnlPool, riskModel, r)}} : TRUE

\* (localPeak - eq) / localPeak
DrawdownOfPeak(localPeak, eq) == Frac(localPeak - eq, localPeak)

\* the second pass over the curve: the largest drawdown as a fraction of the peak
RECURSIVE MaxDDPercent(_, _, _, _)
MaxDDPercent(curve, k, localPeak, maxDD) ==
  IF k > Len(curve) THEN maxDD
  ELSE LET peak == IF curve[k] > localPeak THEN curve[k] ELSE localPeak
           dd   == DrawdownOfPeak(peak, curve[k])
       IN  MaxDDPercent(curve, k + 1, peak, IF FracGt(dd, maxDD) THEN dd ELSE maxDD)

\* (currentEquity - initialEquity) / equityCurve.length
AvgPnl(r, initialEquity) == <<r.currentEquity - initialEquity, Len(r.equityCurve)>>

RECURSIVE SumSq(_, _, _, _)
\* sum over the pnls of (p*b - a)^2: sumSqDiff multiplied by b^2, for avgPnl = a/b
SumSq(pnls, k, a, b) ==
  IF k > Len(pnls) THEN 0
  ELSE (pnls[k] * b - a) * (pnls[k] * b - a) + SumSq(pnls, k + 1, a, b)

RECURSIVE SumSqDownside(_, _)
SumSqDownside(pnls, k) ==
  IF k > Len(pnls) THEN 0
  ELSE (IF pnls[k] < 0 THEN pnls[k] * pnls[k] ELSE 0) + SumSqDownside(pnls, k + 1)

Sign(x) == IF x > 0 THEN 1 ELSE IF x < 0 THEN -1 ELSE 0

\* a real number kept as its sign and its square: sign * sqrt(sq)
Root(sign, sq) == [sign |-> IF sq[1] = 0 THEN 0 ELSE sign, sq |-> sq]

\* stdDev === 0 ? 0 : avgPnl / stdDev, stdDev = sqrt(sumSqDiff / n); with no trade
\* stdDev is sqrt(0 / 0), which is NaN and not 0, and so is the ratio
SharpeRatio(r, initialEquity) ==
  LET avg == AvgPnl(r, initialEquity)
      n   == Len(r.simulationPnls)
      s   == SumSq(r.simulationPnls, 1, avg[1], avg[2])
  IN  IF n = 0 THEN Root(0, <<0, 0>>)
      ELSE IF s = 0 THEN Root(0, <<0, 1>>)
      ELSE Root(Sign(avg[1]), Frac(avg[1] * avg[1] * n, s))

\* downsideDev === 0 ? 0 : avgPnl / downsideDev; NaN with no trade, as stdDev
SortinoRatio(r, initialEquity) ==
  LET avg == AvgPnl(r, initialEquity)
      n   == Len(r.simulationPnls)
      d   == SumSqDownside(r.simulationPnls, 1)
  IN  IF n = 0 THEN Root(0, <<0, 0>>)
      ELSE IF d = 0 THEN Root(0, <<0, 1>>)
      ELSE Root(Sign(avg[1]), Frac(avg[1] * avg[1] * n, avg[2] * avg[2] * d))

\* maxDDPercent * 100
Times100(dd) == Frac(dd[1] * 100, dd[2])

\* the record pushed for one finished run
RunResult(r, id, initialEquity) ==
      [id |-> id,
       equityCurve |-> r.equityCurve,
       finalEquity |-> r.currentEquity,
       maxDrawdown |-> r.maxDrawdown,
       maxDrawdownPercent |->
         Times100(MaxDDPercent(r.equityCurve, 1, initialEquity, <<0, 1>>)),
       winRate |-> Frac(r.winCount * 100, Len(r.simulationPnls)),
       profitFactor |-> IF r.grossLoss = 0 THEN <<r.grossProfit, 1>>
                        ELSE Frac(r.grossProfit, r.grossLoss),
       maxConsecutiveLosses |-> r.maxConsecutiveLosses,
       isRuined |-> r.isRuined,
       sharpeRatio |-> SharpeRatio(r, initialEquity),
       sortinoRatio |-> SortinoRatio(r, initialEquity)]

\* results.push(...) of the finished run r
PushResult(acc, r, id, initialEquity) ==
  [results |-> Append(acc.results, RunResult(r, id, initialEquity)), rng |-> r.rng]

\* a variant of BatchStep: the runs of a batch are numbered from 0
BatchStepFromZero(pnlPool, config, startId, i, acc) ==
  CHOOSE w \in {PushResult(acc, r, i, config.initialEquity) :
                  r \in {TradeLoop(pnlPool, config.riskModel,
                                   config.tradesPerSimulation,
                                   RunStart(config.initialEquity, acc.rng), 0)}} : TRUE

\* one iteration of the batch loop: run i, from the generator state acc.rng
BatchStep(pnlPool, config, startId, i, acc) ==
  CHOOSE w \in {PushResult(acc, r, startId + i, config.initialEquity) :
                  r \in {TradeLoop(pnlPool, config.riskModel,
                                   config.tradesPerSimulation,
                                   RunStart(config.initialEquity, acc.rng), 0)}} : TRUE

\* for (i = 0; i < batchSize; i++): acc is [results, rng] so far, and i is the
\* number of results pushed so far
RECURSIVE BatchLoop(_, _, _, _, _)
BatchLoop(pnlPool, config, batchSize, startId, acc) ==
  IF Len(acc.results) >= batchSize THEN acc
  ELSE CHOOSE w \in {BatchLoop(pnlPool, config, batchSize, startId, next) :
                        next \in {BatchStep(pnlPool, config, startId,
                                            Len(acc.results), acc)}} : TRUE

\* the returned array, and the state the generator passed in is left in
runSimulationBatch(trades, config, batchSize, startId, rng) ==
  IF Len(trades) = 0 THEN [results |-> <<>>, rng |-> rng]
  ELSE BatchLoop(PnlPool(trades, config.riskModel), config, batchSize, startId,
                 [results |-> <<>>, rng |-> rng])

(***************************************************************************)
(* calculateStatistics                                                     *)
(***************************************************************************)
RECURSIVE FirstAboveIn(_, _, _, _)
\* the first index in lo..hi + 1 of an element of the ascending s that is above x,
\* found by halving
FirstAboveIn(s, x, lo, hi) ==
  IF lo > hi THEN lo
  ELSE IF FracGt(s[(lo + hi) \div 2], x)
       THEN FirstAboveIn(s, x, lo, ((lo + hi) \div 2) - 1)
       ELSE FirstAboveIn(s, x, ((lo + hi) \div 2) + 1, hi)

\* the first index from k of an element of the ascending s that is above x
FirstAbove(s, x, k) == FirstAboveIn(s, x, k, Len(s))

RECURSIVE FirstBelowIn(_, _, _, _)
\* the first index in lo..hi + 1 of an element of the descending s that is below x
FirstBelowIn(s, x, lo, hi) ==
  IF lo > hi THEN lo
  ELSE IF FracGt(x, s[(lo + hi) \div 2])
       THEN FirstBelowIn(s, x, lo, ((lo + hi) \div 2) - 1)
       ELSE FirstBelowIn(s, x, ((lo + hi) \div 2) + 1, hi)

\* the first index from k of an element of the descending s that is below x
FirstBelow(s, x, k) == FirstBelowIn(s, x, k, Len(s))

\* s with x put at index k
InsertAt(s, x, k) == SubSeq(s, 1, k - 1) \o <<x>> \o SubSeq(s, k, Len(s))

RECURSIVE SortInto(_, _)
SortInto(arr, acc) ==
  IF Len(acc) >= Len(arr) THEN acc
  ELSE SortInto(arr, InsertAt(acc, arr[Len(acc) + 1],
                              FirstAbove(acc, arr[Len(acc) + 1], 1)))

RECURSIVE SortDownInto(_, _)
SortDownInto(arr, acc) ==
  IF Len(acc) >= Len(arr) THEN acc
  ELSE SortDownInto(arr, InsertAt(acc, arr[Len(acc) + 1],
                                  FirstBelow(acc, arr[Len(acc) + 1], 1)))

\* a variant of SortAscending: .sort((a, b) => b - a)
SortDescending(arr) == SortDownInto(arr, <<>>)

\* .sort((a, b) => a - b) of an array of numbers
SortAscending(arr) == SortInto(arr, <<>>)

\* a variant of getPercentile: the rank ceil(percentile * N), counted from 1
getPercentileByRank(sortedArr, percentile) ==
  LET n == percentile[1] * Len(sortedArr)
      rank == (n + percentile[2] - 1) \div percentile[2]
  IN  sortedArr[IF rank < 1 THEN 1 ELSE rank]

\* getPercentile: sortedArr[Math.min(Math.floor(percentile * N), N - 1)], for the
\* percentile as a fraction; the product in floating point has the floor of the
\* exact product for the percentiles 0.05, 0.5, 0.95, 0.99 and k/100 used here
getPercentile(sortedArr, percentile) ==
  LET index == (percentile[1] * Len(sortedArr)) \div percentile[2]
  IN  sortedArr[(IF index < Len(sortedArr) - 1 THEN index ELSE Len(sortedArr) - 1) + 1]

\* results.map(r => r.finalEquity), the numbers as fractions
FinalEquities(results) == [k \in 1..Len(results) |-> <<results[k].finalEquity, 1>>]

\* results.map(r => r.maxDrawdownPercent)
Drawdowns(results) == [k \in 1..Len(results) |-> results[k].maxDrawdownPercent]

\* results.filter(r => r.isRuined).length
RuinedCount(results) == Cardinality({k \in 1..Len(results) : results[k].isRuined})

\* SP500_AVG_CAGR = 10.5
SP500_AVG_CAGR == <<21, 2>>

\* a - b for fractions
FracMinus(a, b) == Frac(a[1] * b[2] - b[1] * a[2], a[2] * b[2])

\* a variant of EmptyStatistics: cagrVsSP500 computed as for a non-empty collection,
\* cagrMedian - SP500_AVG_CAGR
EmptyStatisticsBelowBenchmark(confidenceLevel) ==
  [medianEquity |-> <<0, 1>>, bestEquity |-> <<0, 1>>, worstEquity |-> <<0, 1>>,
   medianDrawdown |-> <<0, 1>>, worstDrawdown |-> <<0, 1>>,
   ruinProbability |-> <<0, 1>>,
   cagr95 |-> <<0, 1>>, cagr05 |-> <<0, 1>>, cagrMedian |-> <<0, 1>>,
   var95 |-> <<0, 1>>, var99 |-> <<0, 1>>,
   customConfidenceLevel |-> confidenceLevel, varCustom |-> <<0, 1>>,
   cagrCustom |-> <<0, 1>>, sharpeRatio |-> <<0, 1>>, sortinoRatio |-> <<0, 1>>,
   sp500Benchmark |-> SP500_AVG_CAGR,
   cagrVsSP500 |-> FracMinus(<<0, 1>>, SP500_AVG_CAGR)]

\* the record returned for results.length === 0
EmptyStatistics(confidenceLevel) ==
  [medianEquity |-> <<0, 1>>, bestEquity |-> <<0, 1>>, worstEquity |-> <<0, 1>>,
   medianDrawdown |-> <<0, 1>>, worstDrawdown |-> <<0, 1>>,
   ruinProbability |-> <<0, 1>>,
   cagr95 |-> <<0, 1>>, cagr05 |-> <<0, 1>>, cagrMedian |-> <<0, 1>>,
   var95 |-> <<0, 1>>, var99 |-> <<0, 1>>,
   customConfidenceLevel |-> confidenceLevel, varCustom |-> <<0, 1>>,
   cagrCustom |-> <<0, 1>>, sharpeRatio |-> <<0, 1>>, sortinoRatio |-> <<0, 1>>,
   sp500Benchmark |-> SP500_AVG_CAGR, cagrVsSP500 |-> <<0, 1>>]

\* calculateCAGR(finalValue), for durationYears 0 or 1: Math.pow(x, 1 / 1) is x
calculateCAGR(finalValue, initialEquity, durationYears) ==
  IF initialEquity <= 0 \/ finalValue[1] <= 0 \/ durationYears <= 0 THEN <<0, 1>>
  ELSE Frac((finalValue[1] - initialEquity * finalValue[2]) * 100,
            initialEquity * finalValue[2])

\* a > b for ratios kept as sign and square
RootGt(a, b) ==
  IF a.sign # b.sign THEN a.sign > b.sign
  ELSE IF a.sign > 0 THEN FracGt(a.sq, b.sq)
  ELSE IF a.sign < 0 THEN FracGt(b.sq, a.sq)
  ELSE FALSE

RECURSIVE FirstRootAboveIn(_, _, _, _)
\* the first index in lo..hi + 1 of an element of the ascending s that is above x
FirstRootAboveIn(s, x, lo, hi) ==
  IF lo > hi THEN lo
  ELSE IF RootGt(s[(lo + hi) \div 2], x)
       THEN FirstRootAboveIn(s, x, lo, ((lo + hi) \div 2) - 1)
       ELSE FirstRootAboveIn(s, x, ((lo + hi) \div 2) + 1, hi)

RECURSIVE SortRootsInto(_, _)
SortRootsInto(arr, acc) ==
  IF Len(acc) >= Len(arr) THEN acc
  ELSE SortRootsInto(arr, InsertAt(acc, arr[Len(acc) + 1],
                                   FirstRootAboveIn(acc, arr[Len(acc) + 1], 1, Len(acc))))

\* results.map(r => r.sharpeRatio).sort((a,b) => a-b)
SortedSharpes(results) ==
  SortRootsInto([k \in 1..Len(results) |-> results[k].sharpeRatio], <<>>)

\* results.map(r => r.sortinoRatio).sort((a,b) => a-b)
SortedSortinos(results) ==
  SortRootsInto([k \in 1..Len(results) |-> results[k].sortinoRatio], <<>>)

\* tradesPerSim = results[0].equityCurve.length - 1
TradesPerSim(results) == Len(results[1].equityCurve) - 1

\* durationYears > 0 ? tradesPerSim / durationYears : tradesPerSim
TradesPerYear(tradesPerSim, durationYears) ==
  IF durationYears > 0 THEN Frac(tradesPerSim, durationYears) ELSE <<tradesPerSim, 1>>

\* median * Math.sqrt(tradesPerYear)
Annualized(median, tradesPerYear) ==
  Root(median.sign, Frac(median.sq[1] * tradesPerYear[1], median.sq[2] * tradesPerYear[2]))

\* Ratios (Annualized): the fields sharpeRatio and sortinoRatio of the record
AnnualizedRatios(results, durationYears) ==
  [sharpeRatio |-> Annualized(getPercentile(SortedSharpes(results), <<5, 10>>),
                              TradesPerYear(TradesPerSim(results), durationYears)),
   sortinoRatio |-> Annualized(getPercentile(SortedSortinos(results), <<5, 10>>),
                               TradesPerYear(TradesPerSim(results), durationYears))]

\* the record returned for the sorted final equities and drawdowns, but for its
\* annualized ratios; cagrCustom of the source's record is left out of it
StatisticsOf(finalEquities, drawdowns, ruinedCount, initialEquity, durationYears, confidenceLevel) ==
  [medianEquity |-> getPercentile(finalEquities, <<5, 10>>),
   bestEquity |-> finalEquities[Len(finalEquities)],
   worstEquity |-> finalEquities[1],
   medianDrawdown |-> getPercentile(drawdowns, <<5, 10>>),
   worstDrawdown |-> drawdowns[Len(drawdowns)],
   ruinProbability |-> Frac(ruinedCount * 100, Len(finalEquities)),
   cagr05 |-> calculateCAGR(getPercentile(finalEquities, <<5, 100>>),
                            initialEquity, durationYears),
   cagrMedian |-> calculateCAGR(getPercentile(finalEquities, <<5, 10>>),
                                initialEquity, durationYears),
   cagr95 |-> calculateCAGR(getPercentile(finalEquities, <<95, 100>>),
                            initialEquity, durationYears),
   var95 |-> getPercentile(drawdowns, <<95, 100>>),
   var99 |-> getPercentile(drawdowns, <<99, 100>>),
   customConfidenceLevel |-> confidenceLevel,
   varCustom |-> getPercentile(drawdowns, <<confidenceLevel, 100>>),
   sp500Benchmark |-> SP500_AVG_CAGR,
   cagrVsSP500 |-> FracMinus(calculateCAGR(getPercentile(finalEquities, <<5, 10>>),
                                           initialEquity, durationYears),
                             SP500_AVG_CAGR)]

\* calculateStatistics
calculateStatistics(results, initialEquity, durationYears, confidenceLevel) ==
  IF Len(results) = 0 THEN EmptyStatistics(confidenceLevel)
  ELSE StatisticsOf(SortAscending(FinalEquities(results)),
                    SortAscending(Drawdowns(results)),
                    RuinedCount(results), initialEquity, durationYears,
                    confidenceLevel)
       @@ AnnualizedRatios(results, durationYears)

(***************************************************************************)
(* runPropFirmSimulation.  The function's locals are one record: the       *)
(* aggregators, the locals of the trader whose career is simulated, and pc *)
(* for the place reached: "trader" at the head of the for loop, "career"   *)
(* at the head of the while loop, "done" once the statistics are returned; *)
(* returned holds what the function has returned, nothing until it does.   *)
(***************************************************************************)
\* MAX_CAREER_DAYS = 2000
MAX_CAREER_DAYS == 2000

\* MAX_RESTARTS = 100
MAX_RESTARTS == 100

\* Math.max(1, Math.round(tradesPerDay * (0.5 + rng()))) for the output word w of
\* the call: floor(tradesPerDay * w / 2^32 + (tradesPerDay + 1) / 2)
NumTrades(tradesPerDay, w) ==
  LET n == (tradesPerDay * w[1] + (tradesPerDay + 1) * (H \div 2)
            + ((tradesPerDay * w[2]) \div H)) \div H
  IN  IF n < 1 THEN 1 ELSE n

RECURSIVE DayTrades(_, _, _, _)
\* the loop of simulateDay: one call of the generator and one outcome for each trade
DayTrades(pnlPool, rng, numTrades, dailyPnL) ==
  IF numTrades = 0 THEN [dailyPnL |-> dailyPnL, rng |-> rng]
  ELSE CHOOSE d \in {DayTrades(pnlPool, next, numTrades - 1, sum) :
                        next \in {Advance(rng)},
                        sum \in {dailyPnL + pnlPool[FloorTimes(w, Len(pnlPool)) + 1] :
                                   w \in {OutputWord(Advance(rng))}}} : TRUE

\* simulateDay: the day's P&L, and the state the generator is left in
simulateDay(pnlPool, rng, tradesPerDay) ==
  CHOOSE d \in {DayTrades(pnlPool, Advance(rng), numTrades, 0) :
                  numTrades \in {NumTrades(tradesPerDay, w) :
                                   w \in {OutputWord(Advance(rng))}}} : TRUE

\* the locals before the for loop: the pool, the generator the function builds for
\* itself from the seed, and the aggregators
PropFirmStart(trades, config, numTraders, seed) ==
  [pnlPool |-> [k \in 1..Len(trades) |-> trades[k].pnl],
   config |-> config, numTraders |-> numTraders,
   rng |-> createPRNG(seed),
   evalAttempts |-> 0, evalBlown |-> 0, evalPassed |-> 0,
   expressAttempts |-> 0, expressBlown |-> 0, expressPayoutsTotal |-> 0,
   liveReached |-> 0, blownAfterFirstPayout |-> 0,
   trialsToExpress |-> <<>>, trialsToFirstPayout |-> <<>>, trialsToLive |-> <<>>,
   t |-> 0, pc |-> "trader", returned |-> <<>>,
   phase |-> "EVAL", balance |-> config.accountSize, currentPhaseAttempts |-> 0,
   evalProfitProgress |-> 0, expressDaysAboveThreshold |-> 0,
   expressPayoutsCount |-> 0, totalAttempts |-> 1, careerActive |-> TRUE, day |-> 0,
   hasReachedExpress |-> FALSE, hasReachedFirstPayout |-> FALSE,
   hasReachedLive |-> FALSE,
   attemptsToReachExpress |-> 0, attemptsToReachFirstPayout |-> 0,
   attemptsToReachLive |-> 0]

\* the body of the for loop up to the while loop: the locals of trader t, and the
\* trader's first attempt counted
CareerStart(f) ==
  [f EXCEPT !.pc = "career",
            !.phase = "EVAL", !.balance = f.config.accountSize,
            !.currentPhaseAttempts = 0, !.evalProfitProgress = 0,
            !.expressDaysAboveThreshold = 0, !.expressPayoutsCount = 0,
            !.totalAttempts = 1, !.careerActive = TRUE, !.day = 0,
            !.hasReachedExpress = FALSE, !.hasReachedFirstPayout = FALSE,
            !.hasReachedLive = FALSE,
            !.evalAttempts = @ + 1,
            !.attemptsToReachExpress = 1, !.attemptsToReachFirstPayout = 1,
            !.attemptsToReachLive = 1]

\* a variant of CareerContinues: no cap on the restarts
CareerContinuesUncapped(f) == f.careerActive /\ f.day < MAX_CAREER_DAYS

\* while (careerActive && day < MAX_CAREER_DAYS && totalAttempts <= MAX_RESTARTS)
CareerContinues(f) ==
  f.careerActive /\ f.day < MAX_CAREER_DAYS /\ f.totalAttempts <= MAX_RESTARTS

\* a variant of BlowUp: the payouts of the blown EXPRESS attempt are kept
BlowUpKeepingPayouts(f) ==
  IF f.phase = "EVAL"
  THEN [f EXCEPT !.evalBlown = @ + 1,
                 !.balance = f.config.accountSize,
                 !.evalProfitProgress = 0,
                 !.evalAttempts = @ + 1,
                 !.totalAttempts = @ + 1,
                 !.attemptsToReachExpress = IF f.hasReachedExpress THEN @ ELSE @ + 1,
                 !.attemptsToReachFirstPayout =
                    IF f.hasReachedFirstPayout THEN @ ELSE @ + 1,
                 !.attemptsToReachLive = IF f.hasReachedLive THEN @ ELSE @ + 1]
  ELSE IF f.phase = "EXPRESS"
  THEN [f EXCEPT !.expressBlown = @ + 1,
                 !.blownAfterFirstPayout = IF f.hasReachedFirstPayout THEN @ + 1 ELSE @,
                 !.phase = "EVAL",
                 !.balance = f.config.accountSize,
                 !.evalProfitProgress = 0,
                 !.expressDaysAboveThreshold = 0,
                 !.evalAttempts = @ + 1,
                 !.expressAttempts = @ + 1,
                 !.totalAttempts = @ + 1,
                 !.attemptsToReachFirstPayout =
                    IF f.hasReachedFirstPayout THEN @ ELSE @ + 1,
                 !.attemptsToReachLive = IF f.hasReachedLive THEN @ ELSE @ + 1]
  ELSE f

\* the account is blown, by the daily or by the total loss limit: back to EVAL
BlowUp(f) ==
  IF f.phase = "EVAL"
  THEN [f EXCEPT !.evalBlown = @ + 1,
                 !.balance = f.config.accountSize,
                 !.evalProfitProgress = 0,
                 !.evalAttempts = @ + 1,
                 !.totalAttempts = @ + 1,
                 !.attemptsToReachExpress = IF f.hasReachedExpress THEN @ ELSE @ + 1,
                 !.attemptsToReachFirstPayout =
                    IF f.hasReachedFirstPayout THEN @ ELSE @ + 1,
                 !.attemptsToReachLive = IF f.hasReachedLive THEN @ ELSE @ + 1]
  ELSE IF f.phase = "EXPRESS"
  THEN [f EXCEPT !.expressBlown = @ + 1,
                 !.blownAfterFirstPayout = IF f.hasReachedFirstPayout THEN @ + 1 ELSE @,
                 !.phase = "EVAL",
                 !.balance = f.config.accountSize,
                 !.evalProfitProgress = 0,
                 !.expressPayoutsCount = 0,
                 !.expressDaysAboveThreshold = 0,
                 !.evalAttempts = @ + 1,
                 !.expressAttempts = @ + 1,
                 !.totalAttempts = @ + 1,
                 !.attemptsToReachFirstPayout =
                    IF f.hasReachedFirstPayout THEN @ ELSE @ + 1,
                 !.attemptsToReachLive = IF f.hasReachedLive THEN @ ELSE @ + 1]
  ELSE f

\* Passed Eval: on to EXPRESS
PassEval(f) ==
  [f EXCEPT !.evalPassed = @ + 1,
            !.phase = "EXPRESS",
            !.expressAttempts = @ + 1,
            !.balance = f.config.accountSize,
            !.evalProfitProgress = 0,
            !.expressDaysAboveThreshold = 0,
            !.expressPayoutsCount = 0,
            !.hasReachedExpress = TRUE,
            !.trialsToExpress =
               IF f.hasReachedExpress THEN @ ELSE Append(@, f.attemptsToReachExpress)]

\* a variant of EvalDay: the whole of the day's profit counts towards the target
EvalDayUncapped(f, dailyPnL) ==
  IF f.evalProfitProgress + dailyPnL >= f.config.profitTargetEval
  THEN PassEval(f)
  ELSE [f EXCEPT !.evalProfitProgress = @ + dailyPnL]

\* the EVAL day: the day's contribution, capped, towards the profit target
EvalDay(f, dailyPnL) ==
  LET dailyContribution ==
        IF dailyPnL > f.config.maxDailyProfitEval THEN f.config.maxDailyProfitEval
        ELSE dailyPnL
  IN  IF f.evalProfitProgress + dailyContribution >= f.config.profitTargetEval
      THEN PassEval(f)
      ELSE [f EXCEPT !.evalProfitProgress = @ + dailyContribution]

\* a variant of PromotedToLive: promoted with the first payout
PromotedWithFirstPayout(config, expressPayoutsCount) == expressPayoutsCount >= 1

\* if (expressPayoutsCount >= config.expressPayoutsRequired)
PromotedToLive(config, expressPayoutsCount) ==
  expressPayoutsCount >= config.expressPayoutsRequired

\* phase = 'LIVE': the trader is counted and the career ends
GoLive(f) ==
  [f EXCEPT !.phase = "LIVE",
            !.liveReached = @ + 1,
            !.careerActive = FALSE,
            !.hasReachedLive = TRUE,
            !.trialsToLive = IF f.hasReachedLive THEN @ ELSE Append(@, f.attemptsToReachLive)]

\* a variant of Payout: the balance starts again with the days
PayoutResettingBalance(f) ==
  [f EXCEPT !.expressPayoutsTotal = @ + 1,
            !.expressPayoutsCount = @ + 1,
            !.expressDaysAboveThreshold = 0,
            !.balance = f.config.accountSize,
            !.hasReachedFirstPayout = TRUE,
            !.trialsToFirstPayout =
               IF f.hasReachedFirstPayout THEN @
               ELSE Append(@, f.attemptsToReachFirstPayout)]

\* PAYOUT: counted, the days start again, and LIVE once enough payouts are made
Payout(f) ==
  [f EXCEPT !.expressPayoutsTotal = @ + 1,
            !.expressPayoutsCount = @ + 1,
            !.expressDaysAboveThreshold = 0,
            !.hasReachedFirstPayout = TRUE,
            !.trialsToFirstPayout =
               IF f.hasReachedFirstPayout THEN @
               ELSE Append(@, f.attemptsToReachFirstPayout)]

\* the EXPRESS day, for the days above the threshold counted up to it
ExpressDay(f, days) ==
  IF days >= f.config.expressDaysForPayout
  THEN IF PromotedToLive(f.config, f.expressPayoutsCount + 1)
       THEN GoLive(Payout(f))
       ELSE Payout(f)
  ELSE [f EXCEPT !.expressDaysAboveThreshold = days]

\* 4. Process Phase Logic
PhaseLogic(f, dailyPnL) ==
  IF f.phase = "EVAL" THEN EvalDay(f, dailyPnL)
  ELSE IF f.phase = "EXPRESS"
  THEN ExpressDay(f, IF dailyPnL >= f.config.expressPayoutThreshold
                     THEN f.expressDaysAboveThreshold + 1
                     ELSE f.expressDaysAboveThreshold)
  ELSE f

\* the day's rules, in order: daily loss limit, balance, total loss limit, phase
DayRules(f, dailyPnL) ==
  IF dailyPnL <= -f.config.maxDailyLoss THEN BlowUp(f)
  ELSE IF f.balance + dailyPnL < f.config.accountSize - f.config.maxTotalLoss
  THEN BlowUp([f EXCEPT !.balance = @ + dailyPnL])
  ELSE PhaseLogic([f EXCEPT !.balance = @ + dailyPnL], dailyPnL)

\* one iteration of the while loop, for the simulated day d
DayOutcome(f, d) == DayRules([f EXCEPT !.day = @ + 1, !.rng = d.rng], d.dailyPnL)

\* one iteration of the while loop
CareerDay(f) ==
  CHOOSE g \in {DayOutcome(f, d) :
                  d \in {simulateDay(f.pnlPool, f.rng, f.config.tradesPerDay)}} : TRUE

RECURSIVE SumSeq(_, _)
SumSeq(arr, k) == IF k > Len(arr) THEN 0 ELSE arr[k] + SumSeq(arr, k + 1)

\* avg(arr)
Avg(arr) == IF Len(arr) > 0 THEN Frac(SumSeq(arr, 1), Len(arr)) ELSE <<0, 1>>

\* the returned PropFirmAggregateStats
PropFirmStats(f) ==
  [totalTraders |-> f.numTraders,
   evalAttempts |-> f.evalAttempts,
   evalBlown |-> f.evalBlown,
   evalPassed |-> f.evalPassed,
   evalPassRate |-> IF f.evalAttempts > 0 THEN Frac(f.evalPassed * 100, f.evalAttempts)
                    ELSE <<0, 1>>,
   expressAttempts |-> f.expressAttempts,
   expressBlown |-> f.expressBlown,
   expressPayoutsTotal |-> f.expressPayoutsTotal,
   expressPassRate |-> IF f.expressAttempts > 0
                       THEN Frac(f.liveReached * 100, f.expressAttempts)
                       ELSE <<0, 1>>,
   liveReached |-> f.liveReached,
   liveReachedRate |-> Frac(f.liveReached * 100, f.numTraders),
   avgTrialsToExpress |-> Avg(f.trialsToExpress),
   avgTrialsToFirstPayout |-> Avg(f.trialsToFirstPayout),
   avgTrialsToLive |-> Avg(f.trialsToLive),
   blownAfterFirstPayout |-> f.blownAfterFirstPayout]

(***************************************************************************)
(* Inputs                                                                  *)
(***************************************************************************)
\* largest tradesPerSimulation the engine is called with
MaxTrades == 3

\* the engine is called with the seeds -MaxSeed..MaxSeed
MaxSeed == 1

\* direct calls made to one generator, and runs of a batch asked for directly
MaxCalls == 2

\* runs added one at a time to the results handed to calculateStatistics
MaxSample == 4

\* changes of the settings followed within one session
MaxEdits == 1

\* runs configured beyond the full batches of a session
ExtraSims == 20

BATCH_SIZE == 50

DefaultSeed == 12345

Null == "null"

\* null, in a ref or a state that otherwise holds a sequence
Unset == <<>>

Trade(pnl, pnlPercent) == [pnl |-> pnl, pnlPercent |-> pnlPercent]

\* trade histories: mixed outcomes, all-identical outcomes, all-identical losing outcomes
Pools ==
  { <<Trade(3, 100), Trade(-2, -100)>>,
    <<Trade(1, 0)>>,
    <<Trade(-10, -100)>> }

\* convergenceTolerance, in percent, as fractions: 0 (disabled) and the default 0.1
Tolerances == {<<0, 1>>, <<1, 10>>}

\* values typed into the "# Sims" input: a short and a long session
NumSimulations == {BATCH_SIZE + ExtraSims, 4 * BATCH_SIZE + ExtraSims}

\* useState<SimulationConfig>({...}) of App (initialEquity scaled down to 10)
DefaultConfig ==
  [initialEquity |-> 10, numSimulations |-> 4 * BATCH_SIZE + ExtraSims,
   tradesPerSimulation |-> 100, seed |-> DefaultSeed,
   convergenceTolerance |-> <<1, 10>>, confidenceLevel |-> 95,
   riskModel |-> "fixed_pnl"]

\* the configurations the component is built with: no handler changes the
\* tolerance, so it varies over the initial state
InitialConfigs ==
  { [DefaultConfig EXCEPT !.convergenceTolerance = t] : t \in Tolerances }

\* what the settings panel changes of the fields the engine reads: each input sets
\* one field
Settings ==
  [numSimulations |-> NumSimulations, riskModel |-> {"fixed_pnl", "percent_equity"}]

\* two generators, built and used independently of each other
Instances == {1, 2}

\* the seeds the engine is called with directly: zero, negative and positive
EngineSeeds == (-MaxSeed)..MaxSeed

\* the arguments of a direct call of runSimulationBatch
EngineCall(p, s, n, m, i, e) ==
  [trades |-> p,
   config |-> [DefaultConfig EXCEPT !.seed = s, !.tradesPerSimulation = n,
                                    !.riskModel = m, !.initialEquity = e],
   batchSize |-> MaxCalls,
   startIndex |-> i]

\* a history of one trade that halves the equity it is compounded onto
HalvingPool == <<Trade(-Unit, -50)>>

\* a loss of the whole default equity, and a win that makes up for it
RecoveryPool == <<Trade(-10, -100), Trade(12, 120)>>

\* the direct calls: every pool, the empty pool being the configuration error the
\* engine answers with no results; then an equity of 2 units halved trade after
\* trade, and the zero denominators: no trade, no initial equity
EngineCalls ==
  { EngineCall(p, s, n, m, i, DefaultConfig.initialEquity) :
      p \in Pools \cup {<<>>}, s \in EngineSeeds, n \in 1..MaxTrades,
      m \in {"fixed_pnl", "percent_equity"}, i \in {0, BATCH_SIZE} }
  \cup
  { EngineCall(HalvingPool, 0, n, "percent_equity", 0, 2 * Unit) : n \in 1..MaxTrades }
  \cup
  { EngineCall(RecoveryPool, s, MaxTrades, "fixed_pnl", 0, DefaultConfig.initialEquity) :
      s \in EngineSeeds }
  \cup
  { EngineCall(p, 0, n, m, 0, e) :
      p \in Pools, n \in {0, MaxTrades}, m \in {"fixed_pnl", "percent_equity"},
      e \in {0, DefaultConfig.initialEquity} }

(***************************************************************************)
(* App: the incremental simulation controller                              *)
(***************************************************************************)
VARIABLES
  status,             \* 'idle' | 'running' | 'paused' | 'completed' | 'converged'
  trades,             \* the trade pool
  mcConfig,           \* SimulationConfig
  mcResults,          \* the results published to the view
  propStats,          \* the prop-firm statistics, in a sequence of one, or Unset
  progress,           \* percent
  resultsRef,         \* the accumulator
  timerRef,           \* TRUE while a continuation set by setTimeout is pending
  rngRef,             \* the state of the session's generator, or Unset
  prevMeanEquityRef,  \* the previous running mean of finalEquity, a fraction
  effect,             \* TRUE while the loop effect is due to run for a changed dependency
  propCalls,          \* history: runs of the prop-firm simulator since the last start or reset
  edited,             \* history: the settings changed, in order, since the last start or reset
  call,               \* direct use of the engine: the arguments of runSimulationBatch
  gens,               \* direct use: the state of each of two generators, or Null
  emitted,            \* direct use: the words each generator returned to direct calls
  batches,            \* direct use: the batch each generator was handed to, or Null
  sample,             \* direct use: the results handed to calculateStatistics
  statistics,         \* direct use: the statistics of the sample, or Null
  firm                \* direct use: the locals of runPropFirmSimulation, or Null

app == <<status, trades, mcConfig, mcResults, propStats, progress, resultsRef,
         timerRef, rngRef, prevMeanEquityRef, effect, propCalls, edited>>

aggregated == <<sample, statistics>>

direct == <<call, gens, emitted, batches, aggregated, firm>>

vars == <<app, direct>>

\* the propConfig the App starts with
DefaultPropConfig ==
  [accountSize |-> 50000, maxDailyLoss |-> 1000, maxTotalLoss |-> 2000,
   profitTargetEval |-> 3000, maxDailyProfitEval |-> 1500,
   expressPayoutThreshold |-> 150, expressPayoutsRequired |-> 5,
   expressDaysForPayout |-> 5, tradesPerDay |-> 3]

\* a variant of PropFirmRun: the simulator is handed the generator of the session
PropFirmRunShared(pool, seed) ==
  [trades |-> pool, config |-> DefaultPropConfig, numTraders |-> 1000, rng |-> rngRef]

\* runPropFirmSimulation(trades, propConfig, 1000, seed): the statistics are kept as
\* the run that yields them, which is its arguments and the generator it builds for
\* itself from the seed
PropFirmRun(pool, seed) ==
  [trades |-> pool, config |-> DefaultPropConfig, numTraders |-> 1000,
   rng |-> PropFirmStart(pool, DefaultPropConfig, 1000, seed).rng]

\* Math.round((length / numSimulations) * 100)
Progress(length, numSimulations) ==
  (200 * length + numSimulations) \div (2 * numSimulations)

RECURSIVE SumFinalEquity(_, _, _)
\* results.reduce((sum, r) => sum + r.finalEquity, 0) over the indices lo..hi
SumFinalEquity(results, lo, hi) ==
  IF lo > hi THEN 0
  ELSE IF lo = hi THEN results[lo].finalEquity
  ELSE SumFinalEquity(results, lo, (lo + hi) \div 2)
       + SumFinalEquity(results, ((lo + hi) \div 2) + 1, hi)

\* totalEquity / resultsRef.current.length
MeanEquity(results) == <<SumFinalEquity(results, 1, Len(results)), Len(results)>>

\* Math.abs((currentMean - prev) / prev) * 100 < convergenceTolerance
WithinTolerance(cur, prev, tol) ==
  100 * Abs(cur[1] * prev[2] - prev[1] * cur[2]) * tol[2]
    < tol[1] * Abs(cur[2] * prev[1])

\* a variant of Converged: percentDiff <= tolerance, and no test of the tolerance
ConvergedLoose(cur, prev, tol) ==
  /\ prev[1] # 0
  /\ 100 * Abs(cur[1] * prev[2] - prev[1] * cur[2]) * tol[2]
       <= tol[1] * Abs(cur[2] * prev[1])

\* prevMeanEquityRef.current !== 0 && convergenceTolerance > 0 && percentDiff < tolerance
Converged(cur, prev, tol) ==
  prev[1] # 0 /\ tol[1] > 0 /\ WithinTolerance(cur, prev, tol)

\* a variant of Checked: the first check one batch earlier
CheckedEarly(length) == length > BATCH_SIZE

\* a variant of Checked: the first check one batch later
CheckedLate(length) == length > BATCH_SIZE * 3

\* if (resultsRef.current.length > BATCH_SIZE * 2)
Checked(length) == length > BATCH_SIZE * 2

\* a variant of BatchCount: a full batch whatever remains
BatchCountFull(currentCount, numSimulations) == BATCH_SIZE

\* count = Math.min(BATCH_SIZE, remaining)
BatchCount(currentCount, numSimulations) ==
  IF numSimulations - currentCount < BATCH_SIZE
  THEN numSimulations - currentCount ELSE BATCH_SIZE

\* if (!rngRef.current) rngRef.current = createPRNG(mcConfig.seed)
SafeRng == IF rngRef = Unset THEN createPRNG(mcConfig.seed) ELSE rngRef

\* triggerPropFirmSim()
TriggerPropFirmSim ==
  /\ propStats' = <<PropFirmRun(trades, mcConfig.seed)>>
  /\ propCalls' = propCalls + 1

\* a variant of RunBatchComplete: the prop-firm simulator is not run
RunBatchCompleteNoTrigger ==
  /\ Len(resultsRef) >= mcConfig.numSimulations
  /\ status' = "completed"
  /\ timerRef' = FALSE
  /\ UNCHANGED <<trades, mcConfig, mcResults, progress, resultsRef, rngRef,
                 prevMeanEquityRef, propStats, propCalls, edited>>

\* runBatch: currentCount >= numSimulations
RunBatchComplete ==
  /\ Len(resultsRef) >= mcConfig.numSimulations
  /\ status' = "completed"
  /\ TriggerPropFirmSim
  /\ timerRef' = FALSE
  /\ UNCHANGED <<trades, mcConfig, mcResults, progress, resultsRef, rngRef,
                 prevMeanEquityRef, edited>>

\* resultsRef.current = [...resultsRef.current, ...batchResults], with the state
\* the generator is left in
Accumulate(acc, batch) == [all |-> acc \o batch.results, rng |-> batch.rng]

\* runBatch: the batch it runs, appended to the accumulator
BatchOutcome ==
  Accumulate(resultsRef,
             runSimulationBatch(trades, mcConfig,
               BatchCount(Len(resultsRef), mcConfig.numSimulations),
               Len(resultsRef), SafeRng))

\* runBatch: one batch, the convergence check, and the next continuation
RunBatchStep ==
  /\ Len(resultsRef) < mcConfig.numSimulations
  /\ \E out \in {BatchOutcome} :
       LET checked == Checked(Len(out.all))
           stop == checked /\ Converged(MeanEquity(out.all), prevMeanEquityRef,
                                        mcConfig.convergenceTolerance)
       IN  /\ resultsRef' = out.all
           /\ rngRef' = out.rng
           /\ mcResults' = out.all
           /\ IF stop
              THEN /\ progress' = 100
                   /\ status' = "converged"
                   /\ TriggerPropFirmSim
                   /\ timerRef' = FALSE
                   /\ UNCHANGED prevMeanEquityRef
              ELSE /\ prevMeanEquityRef' =
                        IF checked THEN MeanEquity(out.all) ELSE prevMeanEquityRef
                   /\ progress' = Progress(Len(out.all), mcConfig.numSimulations)
                   /\ timerRef' = TRUE
                   /\ UNCHANGED <<status, propStats, propCalls>>
  /\ UNCHANGED <<trades, mcConfig, edited>>

runBatch == RunBatchComplete \/ RunBatchStep

AppInit ==
  /\ status = "idle"
  /\ trades = <<>>
  /\ mcConfig \in InitialConfigs
  /\ mcResults = <<>>
  /\ propStats = Unset
  /\ progress = 0
  /\ resultsRef = <<>>
  /\ timerRef = FALSE
  /\ rngRef = Unset
  /\ prevMeanEquityRef = <<0, 1>>
  /\ effect = FALSE
  /\ propCalls = 0
  /\ edited = <<>>

\* the engine is not used directly
DirectIdle ==
  /\ call = Null
  /\ gens = [i \in Instances |-> Null]
  /\ emitted = [i \in Instances |-> <<>>]
  /\ batches = [i \in Instances |-> Null]
  /\ sample = <<>>
  /\ statistics = Null
  /\ firm = Null

Init == AppInit /\ DirectIdle

\* the body of resetAll, also inlined in handleFileUpload
ResetState ==
  /\ timerRef' = FALSE
  /\ status' = "idle"
  /\ mcResults' = <<>>
  /\ resultsRef' = <<>>
  /\ prevMeanEquityRef' = <<0, 1>>
  /\ propStats' = Unset
  /\ progress' = 0
  /\ rngRef' = Unset
  /\ effect' = FALSE
  /\ propCalls' = 0
  /\ edited' = <<>>

\* "Clear Data", rendered once trades are loaded; the trades stay
resetAll ==
  /\ ~effect
  /\ Len(trades) > 0
  /\ ResetState
  /\ UNCHANGED <<trades, mcConfig, direct>>

\* the upload view is rendered while no trades are loaded; an empty parse is refused
handleFileUpload ==
  /\ ~effect
  /\ Len(trades) = 0
  /\ \E p \in Pools :
       /\ trades' = p
       /\ mcConfig' = [mcConfig EXCEPT !.tradesPerSimulation = Len(p)]
  /\ ResetState
  /\ UNCHANGED direct

\* the setMcConfig handlers of the settings panel ("# Sims", position sizing); both
\* fields are dependencies of the loop effect, which React runs again (after its
\* cleanup has cleared the pending continuation) when one changes while running
setMcConfig ==
  /\ ~effect
  /\ Len(trades) > 0
  /\ status = "idle" \/ Len(edited) < MaxEdits
  /\ \E f \in DOMAIN Settings : \E v \in Settings[f] :
       /\ v # mcConfig[f]
       /\ mcConfig' = [mcConfig EXCEPT ![f] = v]
       /\ edited' = IF status = "idle" THEN edited ELSE Append(edited, f)
  /\ effect' = (status = "running")
  /\ timerRef' = IF status = "running" THEN FALSE ELSE timerRef
  /\ UNCHANGED <<status, trades, mcResults, propStats, progress, resultsRef,
                 rngRef, prevMeanEquityRef, propCalls, direct>>

\* a variant of Start: the accumulator is not emptied
StartKeepsAccumulator ==
  /\ ~effect
  /\ Len(trades) > 0
  /\ status \in {"idle", "completed", "converged"}
  /\ status' = "running"
  /\ mcResults' = <<>>
  /\ propStats' = Unset
  /\ prevMeanEquityRef' = <<0, 1>>
  /\ progress' = 0
  /\ rngRef' = createPRNG(mcConfig.seed)
  /\ effect' = TRUE
  /\ propCalls' = 0
  /\ edited' = <<>>
  /\ UNCHANGED <<trades, mcConfig, timerRef, resultsRef, direct>>

\* startSimulation, status idle | completed | converged: start fresh
Start ==
  /\ ~effect
  /\ Len(trades) > 0
  /\ status \in {"idle", "completed", "converged"}
  /\ status' = "running"
  /\ mcResults' = <<>>
  /\ propStats' = Unset
  /\ resultsRef' = <<>>
  /\ prevMeanEquityRef' = <<0, 1>>
  /\ progress' = 0
  /\ rngRef' = createPRNG(mcConfig.seed)
  /\ effect' = TRUE
  /\ propCalls' = 0
  /\ edited' = <<>>
  /\ UNCHANGED <<trades, mcConfig, timerRef, direct>>

\* a variant of Pause: the pending continuation is not cleared
PauseKeepsTimer ==
  /\ ~effect
  /\ Len(trades) > 0
  /\ status = "running"
  /\ status' = "paused"
  /\ UNCHANGED <<trades, mcConfig, mcResults, propStats, progress, resultsRef,
                 timerRef, rngRef, prevMeanEquityRef, effect, propCalls, edited, direct>>

\* startSimulation, status running: pause; the timeout is cleared by the handler and
\* again by the cleanup of the loop effect
Pause ==
  /\ ~effect
  /\ Len(trades) > 0
  /\ status = "running"
  /\ status' = "paused"
  /\ timerRef' = FALSE
  /\ UNCHANGED <<trades, mcConfig, mcResults, propStats, progress, resultsRef,
                 rngRef, prevMeanEquityRef, effect, propCalls, edited, direct>>

\* a variant of Resume: the generator is built again from the seed
ResumeReseeds ==
  /\ ~effect
  /\ Len(trades) > 0
  /\ status = "paused"
  /\ status' = "running"
  /\ effect' = TRUE
  /\ rngRef' = createPRNG(mcConfig.seed)
  /\ UNCHANGED <<trades, mcConfig, mcResults, propStats, progress, resultsRef,
                 timerRef, prevMeanEquityRef, propCalls, edited, direct>>

\* a variant of Resume: the loop effect is not run for the change of status
ResumeWithoutEffect ==
  /\ ~effect
  /\ Len(trades) > 0
  /\ status = "paused"
  /\ status' = "running"
  /\ UNCHANGED <<trades, mcConfig, mcResults, propStats, progress, resultsRef,
                 timerRef, rngRef, prevMeanEquityRef, effect, propCalls, edited, direct>>

\* startSimulation, status paused: resume
Resume ==
  /\ ~effect
  /\ Len(trades) > 0
  /\ status = "paused"
  /\ status' = "running"
  /\ effect' = TRUE
  /\ UNCHANGED <<trades, mcConfig, mcResults, propStats, progress, resultsRef,
                 timerRef, rngRef, prevMeanEquityRef, propCalls, edited, direct>>

\* the Monte Carlo loop effect, run for a change of status to running
LoopEffect ==
  /\ effect
  /\ status = "running"
  /\ effect' = FALSE
  /\ runBatch
  /\ UNCHANGED direct

\* the continuation scheduled by window.setTimeout(runBatch, 0): runBatch is called
\* whatever the status has become, unless the timeout was cleared
TimerFire ==
  /\ ~effect
  /\ timerRef
  /\ runBatch
  /\ UNCHANGED <<effect, direct>>

Next ==
  \/ handleFileUpload
  \/ resetAll
  \/ setMcConfig
  \/ Start
  \/ Pause
  \/ Resume
  \/ LoopEffect
  \/ TimerFire

Spec == Init /\ [][Next]_vars

\* the steps of LoopEffect, told by what they do to effect: while the effect is due
\* no handler and no continuation runs, and the effect is no longer due once it ran
EffectRuns == effect /\ effect' = FALSE

\* the steps of TimerFire, told by what they do to status and progress: the pending
\* continuation either ends the session or adds a batch, with which progress grows
ContinuationRuns ==
  /\ ~effect
  /\ timerRef
  /\ effect' = FALSE
  /\ status' \in {"running", "completed", "converged"}
  /\ progress' \in 0..100

\* the effect React has queued runs, and a continuation set by setTimeout that is
\* not cleared runs: weak fairness of LoopEffect and of TimerFire, each stated on the
\* variables that tell its steps from the others
FairSpec ==
  Spec /\ WF_effect(EffectRuns) /\ WF_<<status, progress>>(ContinuationRuns)

\* EffectRuns and ContinuationRuns can be taken exactly where LoopEffect and
\* TimerFire can
FairnessEnabled ==
  /\ effect <=> ENABLED <<EffectRuns>>_effect
  /\ (~effect /\ timerRef) <=> ENABLED <<ContinuationRuns>>_<<status, progress>>

\* the steps of EffectRuns and of ContinuationRuns are those of LoopEffect and of
\* TimerFire
FairnessSteps ==
  [][/\ <<EffectRuns>>_effect <=> LoopEffect
     /\ <<ContinuationRuns>>_<<status, progress>> <=> TimerFire]_vars

(***************************************************************************)
(* The engine used directly: createPRNG and runSimulationBatch             *)
(***************************************************************************)
\* a variant of NewGenerator: the state is shared with a generator built before
NewGeneratorShared(i) ==
  /\ gens[i] = Null
  /\ gens' = [gens EXCEPT ![i] =
                IF \E j \in Instances : gens[j] # Null
                THEN gens[CHOOSE j \in Instances : gens[j] # Null]
                ELSE createPRNG(call.config.seed)]
  /\ UNCHANGED <<call, emitted, batches, aggregated, firm, app>>

\* const rng = createPRNG(seed): generator i gets a state of its own
NewGenerator(i) ==
  /\ gens[i] = Null
  /\ gens' = [gens EXCEPT ![i] = createPRNG(call.config.seed)]
  /\ UNCHANGED <<call, emitted, batches, aggregated, firm, app>>

\* rng(): one call of generator i, which returns a word and keeps the new state
CallGenerator(i) ==
  /\ gens[i] # Null
  /\ Len(emitted[i]) < MaxCalls
  /\ gens' = [gens EXCEPT ![i] = Advance(gens[i])]
  /\ emitted' = [emitted EXCEPT ![i] = Append(emitted[i], OutputWord(Advance(gens[i])))]
  /\ UNCHANGED <<call, batches, aggregated, firm, app>>

\* runSimulationBatch(trades, config, batchSize, startIndex, rng) with the fresh
\* generator i
RunBatch(i) ==
  /\ gens[i] # Null
  /\ emitted[i] = <<>>
  /\ batches[i] = Null
  /\ \E out \in {runSimulationBatch(call.trades, call.config, call.batchSize,
                                    call.startIndex, gens[i])} :
       /\ batches' = [batches EXCEPT ![i] = out.results]
       /\ gens' = [gens EXCEPT ![i] = out.rng]
  /\ UNCHANGED <<call, emitted, aggregated, firm, app>>

InitEngine ==
  /\ AppInit
  /\ mcConfig = DefaultConfig
  /\ call \in EngineCalls
  /\ gens = [i \in Instances |-> Null]
  /\ emitted = [i \in Instances |-> <<>>]
  /\ batches = [i \in Instances |-> Null]
  /\ sample = <<>>
  /\ statistics = Null
  /\ firm = Null

NextEngine ==
  \E i \in Instances : NewGenerator(i) \/ CallGenerator(i) \/ RunBatch(i)

SpecEngine == InitEngine /\ [][NextEngine]_vars

(***************************************************************************)
(* The aggregator used directly: calculateStatistics over simulated runs   *)
(***************************************************************************)
\* the confidence levels the statistics are asked for: the ends, the slider's range
\* of the settings panel and a level in between
ConfidenceLevels == {0, 50, 75, 95, 99, 100}

\* trade histories for the sample: rare large losses, so that the high percentiles
\* differ from the worst value, and identical outcomes, so that all values tie
StatisticsPools1 ==
  <<Trade(3, 100), Trade(3, 100), Trade(3, 100), Trade(-2, -100), Trade(-1, -100)>>

StatisticsPools == {StatisticsPools1, <<Trade(1, 0)>>}

\* the arguments of calculateStatistics and of the runs it is given, which are
\* simulated with the longest histories, from the default seed
StatisticsCall(p, m, c, e, y) ==
  [trades |-> p,
   config |-> [DefaultConfig EXCEPT !.tradesPerSimulation = MaxTrades,
                                    !.riskModel = m, !.confidenceLevel = c,
                                    !.initialEquity = e],
   batchSize |-> 1,
   startIndex |-> 0,
   durationYears |-> y]

\* one year and the default equity at every confidence level, and the zero
\* denominators of the growth rate: no initial equity, no duration
StatisticsCalls ==
  { StatisticsCall(p, m, c, DefaultConfig.initialEquity, 1) :
      p \in StatisticsPools, m \in {"fixed_pnl", "percent_equity"},
      c \in ConfidenceLevels }
  \cup
  { StatisticsCall(StatisticsPools1, m, DefaultConfig.confidenceLevel, ey[1], ey[2]) :
      m \in {"fixed_pnl", "percent_equity"},
      ey \in {<<0, 1>>, <<DefaultConfig.initialEquity, 0>>} }

\* calculateStatistics(results, initialEquity, durationYears, confidenceLevel)
Aggregate(results) ==
  calculateStatistics(results, call.config.initialEquity, call.durationYears,
                      call.config.confidenceLevel)

\* count more runs join the sample, and the statistics follow
Simulate(count) ==
  /\ \E out \in {runSimulationBatch(call.trades, call.config, count, Len(sample),
                                    gens[1])} :
       /\ sample' = sample \o out.results
       /\ gens' = [gens EXCEPT ![1] = out.rng]
       /\ statistics' = Aggregate(sample \o out.results)
  /\ UNCHANGED <<call, emitted, batches, firm, app>>

\* one more run, for a small sample or past two batches of the controller
SimulateOne ==
  /\ Len(sample) < MaxSample \/ Len(sample) = 2 * BATCH_SIZE
  /\ Simulate(1)

\* one batch of the controller more, up to two of them
SimulateMany ==
  /\ Len(sample) \in {0, BATCH_SIZE}
  /\ Simulate(BATCH_SIZE)

InitStatistics ==
  /\ AppInit
  /\ mcConfig = DefaultConfig
  /\ call \in StatisticsCalls
  /\ gens = [i \in Instances |-> createPRNG(call.config.seed)]
  /\ emitted = [i \in Instances |-> <<>>]
  /\ batches = [i \in Instances |-> Null]
  /\ sample = <<>>
  /\ statistics = Aggregate(<<>>)
  /\ firm = Null

NextStatistics == SimulateOne \/ SimulateMany

SpecStatistics == InitStatistics /\ [][NextStatistics]_vars

(***************************************************************************)
(* The prop-firm simulator used directly: runPropFirmSimulation, a step at *)
(* a time                                                                  *)
(***************************************************************************)
MaxTraders == 2

PropConfig(maxDailyLoss, tradesPerDay, expressDaysForPayout) ==
  [accountSize |-> 10, maxDailyLoss |-> maxDailyLoss, maxTotalLoss |-> 4,
   profitTargetEval |-> 4, maxDailyProfitEval |-> 3,
   expressPayoutThreshold |-> 2, expressPayoutsRequired |-> 2,
   expressDaysForPayout |-> expressDaysForPayout, tradesPerDay |-> tradesPerDay]

PropFirmCall(p, c, n, s) == [trades |-> p, config |-> c, numTraders |-> n, seed |-> s]

MixedPool == <<Trade(3, 30), Trade(-2, -20)>>

FlatPool == <<Trade(0, 0)>>

LosingPool == <<Trade(-2, -20)>>

PropSeeds == EngineSeeds \cup {DefaultSeed}

\* the calls made: a pool of wins and losses under each daily loss limit, a flat pool
\* that never reaches the profit target, and a flat and a losing pool under a daily
\* loss limit of 0
PropFirmCalls ==
  {PropFirmCall(MixedPool, PropConfig(l, d, x), n, s) :
     l \in {0, 2, 3}, d \in {1, 2}, x \in {1, 2}, n \in 0..MaxTraders, s \in PropSeeds}
  \cup {PropFirmCall(FlatPool, PropConfig(l, 1, 1), n, DefaultSeed) :
          l \in {0, 3}, n \in 0..MaxTraders}
  \cup {PropFirmCall(LosingPool, PropConfig(0, d, 1), n, DefaultSeed) :
          d \in {1, 2}, n \in 0..MaxTraders}

\* for (let t = 0; t < numTraders; t++), up to the while loop
BeginCareer ==
  /\ firm.pc = "trader"
  /\ firm.t < firm.numTraders
  /\ firm' = CareerStart(firm)
  /\ UNCHANGED <<call, gens, emitted, batches, aggregated, app>>

\* one iteration of the while loop
Day ==
  /\ firm.pc = "career"
  /\ CareerContinues(firm)
  /\ \E out \in {CareerDay(firm)} : firm' = out
  /\ UNCHANGED <<call, gens, emitted, batches, aggregated, app>>

\* the while loop is left: the next trader
EndCareer ==
  /\ firm.pc = "career"
  /\ ~CareerContinues(firm)
  /\ firm' = [firm EXCEPT !.pc = "trader", !.t = @ + 1]
  /\ UNCHANGED <<call, gens, emitted, batches, aggregated, app>>

\* the for loop is left: the statistics are returned
Return ==
  /\ firm.pc = "trader"
  /\ firm.t >= firm.numTraders
  /\ firm' = [firm EXCEPT !.pc = "done", !.returned = <<PropFirmStats(firm)>>]
  /\ UNCHANGED <<call, gens, emitted, batches, aggregated, app>>

InitPropFirm ==
  /\ AppInit
  /\ mcConfig = DefaultConfig
  /\ call \in PropFirmCalls
  /\ gens = [i \in Instances |-> Null]
  /\ emitted = [i \in Instances |-> <<>>]
  /\ batches = [i \in Instances |-> Null]
  /\ sample = <<>>
  /\ statistics = Null
  /\ firm = PropFirmStart(call.trades, call.config, call.numTraders, call.seed)

NextPropFirm == BeginCareer \/ Day \/ EndCareer \/ Return

SpecPropFirm == InitPropFirm /\ [][NextPropFirm]_vars

\* the simulator is a loop that runs: a step that can be taken is taken
FairPropFirm == SpecPropFirm /\ WF_vars(NextPropFirm)

(***************************************************************************)
(* Properties of the generator and of the engine (SpecEngine)              *)
(***************************************************************************)
Min(a, b) == IF a < b THEN a ELSE b

C8_CurveLength ==
  \A i \in Instances :
    batches[i] # Null =>
      \A k \in 1..Len(batches[i]) :
        LET r == batches[i][k]
            full == call.config.tradesPerSimulation + 1
        IN  /\ r.equityCurve[1] = call.config.initialEquity
            /\ Len(r.equityCurve) <= full
            /\ Len(r.equityCurve) < full =>
                 /\ call.config.riskModel = "percent_equity"
                 /\ r.isRuined
                 /\ r.finalEquity <= 0
            /\ call.config.riskModel = "fixed_pnl" => Len(r.equityCurve) = full

\* C8 at work: a percent_equity run cut short by ruin
C8_Witness ==
  /\ batches[1] # Null
  /\ call.config.riskModel = "percent_equity"
  /\ \E k \in 1..Len(batches[1]) :
       /\ Len(batches[1][k].equityCurve) < call.config.tradesPerSimulation + 1
       /\ batches[1][k].isRuined

\* the results of the batches run so far
Produced ==
  UNION { {batches[i][k] : k \in 1..Len(batches[i])} :
            i \in {j \in Instances : batches[j] # Null} }

\* the ratio 0
ZeroRatio == Root(0, <<0, 1>>)

\* every outcome of the pool has the same value
IdenticalOutcomes(pool) == Len(pool) > 0 /\ \A k \in 1..Len(pool) : pool[k] = pool[1]

\* C12 as claimed: with a pool of identical outcomes and tradesPerSimulation > 0,
\* every run has sharpeRatio = 0 and sortinoRatio = 0
C12_Original ==
  (IdenticalOutcomes(call.trades) /\ call.config.tradesPerSimulation > 0) =>
    \A r \in Produced : r.sharpeRatio = ZeroRatio /\ r.sortinoRatio = ZeroRatio

\* the P&L of trade k of a run, read off its curve
PnlOf(r, k) == r.equityCurve[k + 1] - r.equityCurve[k]

\* a fraction that is a number: neither NaN nor an infinity
Finite(x) == x[2] # 0

\* C17 as claimed: a ratio of a run whose denominator is zero is 0, and no ratio is
\* undefined or infinite: winRate with no trade, profitFactor with no loss, the
\* drawdown percentage with a peak of zero, Sharpe and Sortino with no deviation
C17_Original ==
  \A r \in Produced :
    LET trades_ == 1..(Len(r.equityCurve) - 1)
    IN  /\ Finite(r.winRate) /\ Finite(r.profitFactor) /\ Finite(r.maxDrawdownPercent)
        /\ Finite(r.sharpeRatio.sq) /\ Finite(r.sortinoRatio.sq)
        /\ trades_ = {} => r.winRate = <<0, 1>>
        /\ (\A k \in trades_ : PnlOf(r, k) >= 0) => r.profitFactor = <<0, 1>>
        /\ (\A k \in trades_ : PnlOf(r, k) >= 0) => r.sortinoRatio = ZeroRatio
        /\ (\A k \in 1..Len(r.equityCurve) : r.equityCurve[k] = 0) =>
             r.maxDrawdownPercent = <<0, 1>>

\* C20 as claimed: under percent_equity, starting above 1 unit, no trade is
\* compounded onto an equity of at most 1 unit, so every curve value but the last is
\* above 1 unit
C20_Original ==
  (call.config.riskModel = "percent_equity" /\ call.config.initialEquity > Unit) =>
    \A r \in Produced :
      \A k \in 1..(Len(r.equityCurve) - 1) : r.equityCurve[k] > Unit

\* C21 as claimed: a run is flagged as ruined if and only if some value on its
\* equity curve is <= 0
C21_Original ==
  \A r \in Produced :
    r.isRuined <=> \E k \in 1..Len(r.equityCurve) : r.equityCurve[k] <= 0

\* C21: a run is flagged as ruined if and only if its equity is <= 0 after some
\* trade, that is, some value on its equity curve after the initial one is <= 0;
\* under fixed_pnl a run draws all its trades, ruined or not
C21_RuinFlag ==
  \A r \in Produced :
    /\ r.isRuined <=> \E k \in 2..Len(r.equityCurve) : r.equityCurve[k] <= 0
    /\ call.config.riskModel = "fixed_pnl" =>
         Len(r.equityCurve) = call.config.tradesPerSimulation + 1

\* C21 at work: a fixed_pnl run from a positive equity that fell to 0 or below
\* before its last trade, drew on, and ended above 0 with the flag still set
C21_Witness ==
  /\ call.config.riskModel = "fixed_pnl"
  /\ call.config.initialEquity > 0
  /\ \E r \in Produced :
       /\ r.isRuined
       /\ r.finalEquity > 0
       /\ \E k \in 2..(Len(r.equityCurve) - 1) : r.equityCurve[k] <= 0

\* the P&L values realized in a run, read off its curve
RealizedPnls(r) == [k \in 1..(Len(r.equityCurve) - 1) |-> PnlOf(r, k)]

\* the mean of the realized P&L values: their sum, which is the change of the
\* equity over the run, divided by their number
RealizedMean(r) == <<r.finalEquity - r.equityCurve[1], Len(r.equityCurve) - 1>>

\* mean / sqrt(sum of (p - mean)^2 / n) over the P&L values, 0 with no deviation
SharpeWithMean(pnls, mean) ==
  LET sumSq == SumSq(pnls, 1, mean[1], mean[2])
  IN  IF sumSq = 0 THEN ZeroRatio
      ELSE Root(Sign(mean[1]), Frac(mean[1] * mean[1] * Len(pnls), sumSq))

\* mean / sqrt(sum of the squared losses / n) over the P&L values, 0 with no loss
SortinoWithMean(pnls, mean) ==
  LET sumSq == SumSqDownside(pnls, 1)
  IN  IF sumSq = 0 THEN ZeroRatio
      ELSE Root(Sign(mean[1]),
                Frac(mean[1] * mean[1] * Len(pnls), mean[2] * mean[2] * sumSq))

\* C22 as claimed: the Sharpe and Sortino ratios of a run with at least one trade
\* are those of the mean of its realized P&L values, the sum of the values divided
\* by their number
C22_Original ==
  \A r \in Produced :
    Len(r.equityCurve) > 1 =>
      /\ r.sharpeRatio = SharpeWithMean(RealizedPnls(r), RealizedMean(r))
      /\ r.sortinoRatio = SortinoWithMean(RealizedPnls(r), RealizedMean(r))

\* the mean the engine does use: the sum divided by the number of curve points
C22_CurvePointsMean ==
  \A r \in Produced :
    Len(r.equityCurve) > 1 =>
      /\ r.sharpeRatio =
           SharpeWithMean(RealizedPnls(r),
                          <<r.finalEquity - r.equityCurve[1], Len(r.equityCurve)>>)
      /\ r.sortinoRatio =
           SortinoWithMean(RealizedPnls(r),
                           <<r.finalEquity - r.equityCurve[1], Len(r.equityCurve)>>)

(***************************************************************************)
(* Properties of the aggregator (SpecStatistics)                           *)
(***************************************************************************)
\* v is the element at the 0-based index of arr put in ascending order: it occurs
\* in arr, at most index elements are below it and at least index + 1 are not above
AtIndex(arr, v, index) ==
  /\ \E k \in 1..Len(arr) : FracLe(arr[k], v) /\ FracLe(v, arr[k])
  /\ Cardinality({k \in 1..Len(arr) : FracGt(v, arr[k])}) <= index
  /\ Cardinality({k \in 1..Len(arr) : FracLe(arr[k], v)}) >= index + 1

\* min(floor(p * N), N - 1)
IndexOf(p, N) == Min((p[1] * N) \div p[2], N - 1)

\* C9: for a non-empty sample of N results, medianEquity is the final equity at
\* index min(floor(0.5 N), N - 1) of the ascending order, and medianDrawdown, var95,
\* var99 and varCustom are the drawdowns at the indices of 0.5, 0.95, 0.99 and
\* confidenceLevel / 100: elements of the sample, never interpolated
C9_Percentile ==
  Len(sample) > 0 =>
    LET N == Len(sample)
        E == FinalEquities(sample)
        D == Drawdowns(sample)
    IN  /\ AtIndex(E, statistics.medianEquity, IndexOf(<<1, 2>>, N))
        /\ AtIndex(D, statistics.medianDrawdown, IndexOf(<<1, 2>>, N))
        /\ AtIndex(D, statistics.var95, IndexOf(<<95, 100>>, N))
        /\ AtIndex(D, statistics.var99, IndexOf(<<99, 100>>, N))
        /\ AtIndex(D, statistics.varCustom,
                   IndexOf(<<call.config.confidenceLevel, 100>>, N))

\* C9 at work: more than a hundred results, the percentile 1 held to the last
\* index, and values that differ between the indices
C9_Witness ==
  /\ Len(sample) = 2 * BATCH_SIZE + 1
  /\ call.config.confidenceLevel = 100
  /\ FracGt(statistics.varCustom, statistics.var95)
  /\ FracGt(statistics.var95, statistics.medianDrawdown)

\* C10: for a non-empty sample, medianDrawdown <= var95 <= var99 <= worstDrawdown
\* and worstEquity <= medianEquity <= bestEquity
C10_Monotone ==
  Len(sample) > 0 =>
    /\ FracLe(statistics.medianDrawdown, statistics.var95)
    /\ FracLe(statistics.var95, statistics.var99)
    /\ FracLe(statistics.var99, statistics.worstDrawdown)
    /\ FracLe(statistics.worstEquity, statistics.medianEquity)
    /\ FracLe(statistics.medianEquity, statistics.bestEquity)

\* C10 at work: a sample whose median, 95% and worst drawdowns differ, and whose
\* worst, median and best equities differ
C10_Witness ==
  /\ Len(sample) > 0
  /\ FracGt(statistics.var95, statistics.medianDrawdown)
  /\ FracGt(statistics.worstDrawdown, statistics.var95)
  /\ FracGt(statistics.medianEquity, statistics.worstEquity)
  /\ FracGt(statistics.bestEquity, statistics.medianEquity)

\* the statistics the record holds besides the confidence level it was asked for
\* and the benchmark constant
ComputedFields ==
  {"medianEquity", "bestEquity", "worstEquity", "medianDrawdown", "worstDrawdown",
   "ruinProbability", "cagr95", "cagr05", "cagrMedian", "var95", "var99",
   "varCustom", "cagrCustom", "sharpeRatio", "sortinoRatio", "cagrVsSP500"}

\* the number 0, as the record holds it in field f
Zero(f) == IF f = "customConfidenceLevel" THEN 0 ELSE <<0, 1>>

\* C11 as claimed: every numeric field of the statistics of an empty collection is 0
C11_Original ==
  Len(sample) = 0 => \A f \in DOMAIN statistics : statistics[f] = Zero(f)

\* C11: the statistics of an empty collection are a defined record in which every
\* computed statistic is 0; customConfidenceLevel is the confidence level asked for
\* and sp500Benchmark is the constant 10.5
C11_EmptyRecord ==
  Len(sample) = 0 =>
    /\ DOMAIN statistics = ComputedFields \cup {"customConfidenceLevel", "sp500Benchmark"}
    /\ \A f \in ComputedFields : statistics[f] = Zero(f)
    /\ statistics.customConfidenceLevel = call.config.confidenceLevel
    /\ statistics.sp500Benchmark = SP500_AVG_CAGR

\* C11 at work: the statistics of no results, asked for at a confidence level that
\* is not 0
C11_Witness ==
  /\ Len(sample) = 0
  /\ statistics = Aggregate(<<>>)
  /\ call.config.confidenceLevel > 0

\* C23 as claimed: for a non-empty sample over a positive duration, the annualized
\* ratios are the median per-run ratios times the square root of the configured
\* tradesPerSimulation divided by the duration in years
C23_Original ==
  (Len(sample) > 0 /\ call.durationYears > 0) =>
    /\ TradesPerYear(TradesPerSim(sample), call.durationYears) =
         Frac(call.config.tradesPerSimulation, call.durationYears)
    /\ statistics.sharpeRatio =
         Annualized(getPercentile(SortedSharpes(sample), <<5, 10>>),
                    Frac(call.config.tradesPerSimulation, call.durationYears))
    /\ statistics.sortinoRatio =
         Annualized(getPercentile(SortedSortinos(sample), <<5, 10>>),
                    Frac(call.config.tradesPerSimulation, call.durationYears))

\* the claim of C23 for samples whose first run drew all its trades
C23_FirstRunFull ==
  (/\ Len(sample) > 0 /\ call.durationYears > 0
   /\ Len(sample[1].equityCurve) = call.config.tradesPerSimulation + 1) =>
    /\ statistics.sharpeRatio =
         Annualized(getPercentile(SortedSharpes(sample), <<5, 10>>),
                    Frac(call.config.tradesPerSimulation, call.durationYears))
    /\ statistics.sortinoRatio =
         Annualized(getPercentile(SortedSortinos(sample), <<5, 10>>),
                    Frac(call.config.tradesPerSimulation, call.durationYears))

(***************************************************************************)
(* Properties of the controller (Spec)                                     *)
(***************************************************************************)
Finished == status \in {"completed", "converged"}

RECURSIVE SessionFrom(_, _, _, _, _)
RECURSIVE SessionAfter(_, _, _, _)
\* the accumulator a session ends with when its batches follow each other without
\* interruption, from the accumulator acc, the generator state rng and the previous
\* mean prev
SessionFrom(pool, config, acc, rng, prev) ==
  IF Len(acc) >= config.numSimulations THEN acc
  ELSE SessionAfter(pool, config, prev,
         Accumulate(acc, runSimulationBatch(pool, config,
                           BatchCount(Len(acc), config.numSimulations), Len(acc), rng)))

SessionAfter(pool, config, prev, out) ==
  IF Checked(Len(out.all))
       /\ Converged(MeanEquity(out.all), prev, config.convergenceTolerance)
  THEN out.all
  ELSE SessionFrom(pool, config, out.all, out.rng,
                   IF Checked(Len(out.all)) THEN MeanEquity(out.all) ELSE prev)

Uninterrupted(pool, config) ==
  SessionFrom(pool, config, <<>>, createPRNG(config.seed), <<0, 1>>)

\* C2: a session whose settings were left alone ends, completed or converged, with
\* the accumulator of the uninterrupted session of the same seed, pool and config,
\* however it was paused and resumed; and resume leaves the generator as it is
C2_PauseResume ==
  /\ [](Finished /\ edited = <<>> => resultsRef = Uninterrupted(trades, mcConfig))
  /\ [][status = "paused" /\ status' = "running" => rngRef' = rngRef]_vars

\* C2 at work: a session that ended after having been paused is not visible in the
\* final state, so the witness is the pause itself, past the first batch of a pool
\* with different outcomes
C2_Witness ==
  /\ status = "paused"
  /\ edited = <<>>
  /\ Len(resultsRef) = 2 * BATCH_SIZE
  /\ Len(trades) > 1
  /\ rngRef # createPRNG(mcConfig.seed)

\* C3: the status changes only along idle/completed/converged -> running (with the
\* accumulator, the previous mean and the prop-firm stats cleared and a generator
\* built from the seed), running -> paused, paused -> running, running -> completed,
\* running -> converged, and the reset to idle
C3_StatusEdges ==
  [][status' # status =>
       \/ /\ status \in {"idle", "completed", "converged"}
          /\ status' = "running"
          /\ resultsRef' = <<>>
          /\ prevMeanEquityRef' = <<0, 1>>
          /\ propStats' = Unset
          /\ rngRef' = createPRNG(mcConfig.seed)
       \/ status = "running" /\ status' \in {"paused", "completed", "converged"}
       \/ status = "paused" /\ status' = "running"
       \/ /\ status' = "idle"
          /\ resultsRef' = <<>>
          /\ rngRef' = Unset]_vars

\* C3 at work: a session started again from a finished one, and running
C3_Witness ==
  /\ status = "running"
  /\ effect
  /\ resultsRef = <<>>
  /\ mcResults = <<>>
  /\ rngRef = createPRNG(mcConfig.seed)
  /\ edited = <<>>
  /\ propCalls = 0
  /\ timerRef = FALSE
  /\ mcConfig.numSimulations = BATCH_SIZE + ExtraSims

\* C4: a finished session has run the prop-firm simulator exactly once, on the
\* loaded trades and the configured seed, and a session that is idle, running or
\* paused has not run it
C4_PropFirmOnce ==
  /\ Finished => propCalls = 1 /\ propStats = <<PropFirmRun(trades, mcConfig.seed)>>
  /\ ~Finished => propCalls = 0 /\ propStats = Unset

\* C4 at work: a session that converged
C4_Witness ==
  /\ status = "converged"
  /\ propCalls = 1
  /\ propStats = <<PropFirmRun(trades, mcConfig.seed)>>

\* C5 as claimed: the accumulator never holds more than numSimulations results, and
\* holds exactly numSimulations when the status is completed
C5_Original ==
  /\ Len(resultsRef) <= mcConfig.numSimulations
  /\ (status = "completed" /\ Len(trades) > 0 /\ mcConfig.numSimulations > 0) =>
       Len(resultsRef) = mcConfig.numSimulations

NumSimulationsKept == \A k \in 1..Len(edited) : edited[k] # "numSimulations"

\* C5: every batch adds min(50, numSimulations - accumulated) results, and while
\* numSimulations was not changed since the session started the accumulator holds at
\* most numSimulations results, exactly numSimulations when the status is completed
C5_NoOverRequest ==
  /\ [][Len(resultsRef') > Len(resultsRef) =>
          Len(resultsRef') - Len(resultsRef)
            = Min(BATCH_SIZE, mcConfig.numSimulations - Len(resultsRef))]_vars
  /\ [](NumSimulationsKept =>
          /\ Len(resultsRef) <= mcConfig.numSimulations
          /\ status = "completed" => Len(resultsRef) = mcConfig.numSimulations)

\* C5 at work: a completed session whose last batch was a partial one
C5_Witness ==
  /\ status = "completed"
  /\ NumSimulationsKept
  /\ mcConfig.numSimulations = BATCH_SIZE + ExtraSims
  /\ Len(resultsRef) = BATCH_SIZE + ExtraSims

ToleranceZero == mcConfig.convergenceTolerance[1] = 0

ZeroVariance == Len(trades) > 0 /\ \A k \in 1..Len(trades) : trades[k] = trades[1]

LongSession == mcConfig.numSimulations > 4 * BATCH_SIZE

C18_PausedFrozen ==
  /\ [](status = "paused" => ~timerRef /\ ~effect)
  /\ [][(/\ status \in {"running", "paused"}
          /\ status' \in {"running", "paused"}
          /\ "paused" \in {status, status'}) =>
            /\ resultsRef' = resultsRef
            /\ mcResults' = mcResults
            /\ prevMeanEquityRef' = prevMeanEquityRef
            /\ rngRef' = rngRef]_vars

\* C18 at work: paused after three batches, with a running mean recorded
C18_Witness ==
  /\ status = "paused"
  /\ Len(resultsRef) = 3 * BATCH_SIZE
  /\ prevMeanEquityRef = MeanEquity(resultsRef)
  /\ rngRef # createPRNG(mcConfig.seed)

\* 100 * |new - old| / |old| < tol, for fractions; false when old is 0
RelativeChangeBelow(new, old, tol) ==
  100 * Abs(new[1] * old[2] - old[1] * new[2]) * tol[2] < tol[1] * new[2] * Abs(old[1])

\* the convergence conditions after a batch that took the accumulator from before to
\* after: more than two batch sizes accumulated, a running mean taken after the
\* batch before (which also ended above two batch sizes), a positive tolerance, and
\* the relative change of the mean below it
ConvergenceHolds(before, after, tol) ==
  /\ Len(after) > 2 * BATCH_SIZE
  /\ Len(before) > 2 * BATCH_SIZE
  /\ tol[1] > 0
  /\ RelativeChangeBelow(MeanEquity(after), MeanEquity(before), tol)

Returned == firm.pc = "done"

\* the statistics a returned run has returned
stats == firm.returned[1]

\* C13: the simulator terminates: no career simulates more than MAX_CAREER_DAYS
\* days, a day is simulated only while the attempt counter has not exceeded
\* MAX_RESTARTS and the trader has not reached LIVE, and the statistics are returned
\* in the end
C13_Terminates ==
  /\ [](firm.day <= MAX_CAREER_DAYS /\ firm.totalAttempts <= MAX_RESTARTS + 1)
  /\ [][firm'.day = firm.day + 1 =>
          /\ firm.day < MAX_CAREER_DAYS
          /\ firm.totalAttempts <= MAX_RESTARTS
          /\ firm.phase # "LIVE"]_vars
  /\ [][firm.phase = "LIVE" /\ firm.pc = "career" => firm'.pc = "trader"]_vars
  /\ <>Returned

\* C13 at work: a run over a pool that never reaches the profit target has
\* returned, the last career having gone through all MAX_CAREER_DAYS days in EVAL
C13_Witness ==
  /\ Returned
  /\ firm.numTraders = MaxTraders
  /\ firm.day = MAX_CAREER_DAYS
  /\ firm.phase = "EVAL"

\* C14: the funnel is conserved at every point of a run and in the statistics
\* returned: no more EVAL passes than EVAL attempts, no more traders at LIVE than
\* EXPRESS attempts or than traders; a trader is counted at LIVE once, out of
\* EXPRESS, when the payouts of the current EXPRESS attempt, which are counted from
\* 0 when EXPRESS is entered, are at least expressPayoutsRequired
C14_Funnel ==
  /\ [](/\ firm.evalPassed <= firm.evalAttempts
         /\ firm.liveReached <= firm.expressAttempts
         /\ firm.liveReached <= firm.numTraders)
  /\ [](Returned =>
          /\ stats.evalPassed <= stats.evalAttempts
          /\ stats.liveReached <= stats.expressAttempts
          /\ stats.liveReached <= stats.totalTraders)
  /\ [][firm'.liveReached # firm.liveReached =>
          /\ firm'.liveReached = firm.liveReached + 1
          /\ firm.phase = "EXPRESS" /\ firm'.phase = "LIVE"
          /\ firm'.expressPayoutsCount >= firm.config.expressPayoutsRequired]_vars
  /\ [][firm.phase # "EXPRESS" /\ firm'.phase = "EXPRESS" =>
          firm'.expressPayoutsCount = 0]_vars
  /\ [][firm'.expressPayoutsCount > firm.expressPayoutsCount =>
          /\ firm'.expressPayoutsCount = firm.expressPayoutsCount + 1
          /\ firm.phase = "EXPRESS"]_vars

\* C14 at work: a returned run in which every trader reached LIVE, after blow-ups in
\* EVAL and in EXPRESS
C14_Witness ==
  /\ Returned
  /\ stats.liveReached = MaxTraders
  /\ stats.evalBlown > 0
  /\ stats.expressBlown > 0
  /\ stats.expressPayoutsTotal > MaxTraders * call.config.expressPayoutsRequired

\* C15 as claimed: under a daily loss limit of 0 every simulated day blows the
\* attempt up, and the statistics returned have evalBlown = evalAttempts and
\* evalPassed = 0
C15_Original ==
  /\ [][call.config.maxDailyLoss = 0 /\ firm'.day = firm.day + 1 =>
          firm'.evalBlown = firm.evalBlown + 1]_vars
  /\ [](call.config.maxDailyLoss = 0 /\ Returned =>
          /\ stats.evalBlown = stats.evalAttempts
          /\ stats.evalPassed = 0)

\* the counts claimed in C15, for a pool without a winning trade alone
C15_LosingPool ==
  [](call.config.maxDailyLoss = 0 /\ call.trades = LosingPool /\ Returned =>
       /\ stats.evalBlown = stats.evalAttempts
       /\ stats.evalPassed = 0)

(***************************************************************************)
(* The two streams (Spec)                                                  *)
(***************************************************************************)
\* the state n calls leave a generator in: each call adds the increment once
AdvanceBy(state, n) == AddW(state, Imul(<<n \div H, n % H>>, INCREMENT))

RECURSIVE Draws(_, _, _)
\* the calls of the session's generator that the results lo..hi account for: one for
\* each trade of each run
Draws(results, lo, hi) ==
  IF lo > hi THEN 0
  ELSE IF lo = hi THEN Len(results[lo].equityCurve) - 1
  ELSE Draws(results, lo, (lo + hi) \div 2) + Draws(results, ((lo + hi) \div 2) + 1, hi)

\* C16: the prop-firm simulator and the controller draw from separate streams: the
\* statistics of a finished session are those of a run on the loaded trades with a
\* generator built from the configured seed, whether the session completed or
\* converged and whatever the batches drew; the session's generator is always where
\* the trades simulated so far, and nothing else, have left it; and the step that
\* runs the prop-firm simulator leaves the session's generator where the step's own
\* batch, if it ran one, left it
C16_SeparateStreams ==
  /\ [](Finished =>
          /\ propStats[1].trades = trades
          /\ propStats[1].rng = createPRNG(mcConfig.seed))
  /\ [](status \in {"running", "paused", "completed", "converged"} =>
          rngRef = AdvanceBy(createPRNG(mcConfig.seed),
                             Draws(resultsRef, 1, Len(resultsRef))))
  /\ [][propCalls' > propCalls =>
          rngRef' = AdvanceBy(rngRef,
                              Draws(resultsRef', 1, Len(resultsRef'))
                                - Draws(resultsRef, 1, Len(resultsRef)))]_vars

\* C16 at work: a session that converged after more than three batches: the
\* session's generator has moved on from the seed, the simulator's started from it
C16_Witness ==
  /\ status = "converged"
  /\ Len(resultsRef) > 3 * BATCH_SIZE
  /\ propCalls = 1
  /\ rngRef # createPRNG(mcConfig.seed)
  /\ propStats[1].rng = createPRNG(mcConfig.seed)


(***************************************************************************)
(* Properties of the days of a career (SpecPropFirm)                       *)
(***************************************************************************)
\* the P&L of the day the while loop simulates next
DayPnL == simulateDay(firm.pnlPool, firm.rng, firm.config.tradesPerDay).dailyPnL

\* a step that is one iteration of the while loop
DayTaken == firm.pc = "career" /\ CareerContinues(firm) /\ firm'.day = firm.day + 1

\* the day's P&L breaks the daily loss limit, or takes the balance below the total
\* loss limit
Blown ==
  \/ DayPnL <= -firm.config.maxDailyLoss
  \/ firm.balance + DayPnL < firm.config.accountSize - firm.config.maxTotalLoss

\* C24: a day in EVAL or EXPRESS whose P&L is <= -maxDailyLoss, or after which the
\* balance is below accountSize - maxTotalLoss, restarts the career in EVAL with
\* balance accountSize and eval progress, express day counter and payout count zero;
\* the blow-up is counted for the phase it happened in, and an EXPRESS blow-up
\* increments blownAfterFirstPayout exactly when the trader had received a payout
C24_BlowUp ==
  [][(DayTaken /\ firm.phase \in {"EVAL", "EXPRESS"} /\ Blown) =>
       /\ firm'.phase = "EVAL"
       /\ firm'.balance = firm.config.accountSize
       /\ firm'.evalProfitProgress = 0
       /\ firm'.expressDaysAboveThreshold = 0
       /\ firm'.expressPayoutsCount = 0
       /\ firm'.totalAttempts = firm.totalAttempts + 1
       /\ firm'.evalBlown = firm.evalBlown + (IF firm.phase = "EVAL" THEN 1 ELSE 0)
       /\ firm'.expressBlown =
            firm.expressBlown + (IF firm.phase = "EXPRESS" THEN 1 ELSE 0)
       /\ firm'.blownAfterFirstPayout =
            firm.blownAfterFirstPayout
            + (IF firm.phase = "EXPRESS" /\ firm.hasReachedFirstPayout THEN 1 ELSE 0)
       /\ firm'.evalPassed = firm.evalPassed
       /\ firm'.liveReached = firm.liveReached
       /\ firm'.expressPayoutsTotal = firm.expressPayoutsTotal]_vars

\* C24 at work: a trader blown in EVAL, blown in EXPRESS before any payout and blown
\* in EXPRESS after a payout
C24_Witness ==
  /\ firm.pc = "career"
  /\ firm.phase = "EVAL"
  /\ firm.evalBlown > 0
  /\ firm.blownAfterFirstPayout > 0
  /\ firm.expressBlown > firm.blownAfterFirstPayout

\* the profit-target accumulator after a surviving EVAL day
Accumulated == firm.evalProfitProgress + Min(DayPnL, firm.config.maxDailyProfitEval)

\* C25: on a surviving EVAL day the accumulator grows by
\* min(dayPnL, maxDailyProfitEval); the career moves to EXPRESS exactly when the
\* accumulator reaches profitTargetEval, with the balance reset to accountSize and eval
\* progress, express day counter and payout count zero; and no step takes a career
\* from EVAL to LIVE
C25_EvalProgress ==
  [][/\ (DayTaken /\ firm.phase = "EVAL" /\ ~Blown) =>
          IF Accumulated >= firm.config.profitTargetEval
          THEN /\ firm'.phase = "EXPRESS"
               /\ firm'.balance = firm.config.accountSize
               /\ firm'.evalProfitProgress = 0
               /\ firm'.expressDaysAboveThreshold = 0
               /\ firm'.expressPayoutsCount = 0
               /\ firm'.evalPassed = firm.evalPassed + 1
          ELSE /\ firm'.phase = "EVAL"
               /\ firm'.evalProfitProgress = Accumulated
               /\ firm'.balance = firm.balance + DayPnL
               /\ firm'.evalPassed = firm.evalPassed
     /\ firm.phase = "EVAL" => firm'.phase # "LIVE"]_vars

\* C25 at work: an EVAL attempt after an earlier one was passed, one day into it, the
\* day's profit above the cap and the accumulator at the cap
C25_Witness ==
  /\ firm.pc = "career"
  /\ firm.phase = "EVAL"
  /\ firm.evalPassed > 0
  /\ firm.evalProfitProgress = firm.config.maxDailyProfitEval
  /\ firm.balance - firm.config.accountSize > firm.config.maxDailyProfitEval

\* the express day counter after a surviving EXPRESS day, before a payout resets it
DaysAbove ==
  firm.expressDaysAboveThreshold
  + (IF DayPnL >= firm.config.expressPayoutThreshold THEN 1 ELSE 0)

\* C26: a surviving EXPRESS day increments the day counter iff its P&L is >=
\* expressPayoutThreshold; when the counter reaches expressDaysForPayout one payout is
\* issued (payout count and expressPayoutsTotal grow by one, the day counter is
\* reset, the balance is kept); the career becomes LIVE exactly when the payout count
\* reaches expressPayoutsRequired; and no day is simulated for a trader who is LIVE
C26_ExpressProgress ==
  [][/\ (DayTaken /\ firm.phase = "EXPRESS" /\ ~Blown) =>
          /\ firm'.balance = firm.balance + DayPnL
          /\ firm'.evalProfitProgress = firm.evalProfitProgress
          /\ IF DaysAbove >= firm.config.expressDaysForPayout
             THEN /\ firm'.expressPayoutsCount = firm.expressPayoutsCount + 1
                  /\ firm'.expressPayoutsTotal = firm.expressPayoutsTotal + 1
                  /\ firm'.expressDaysAboveThreshold = 0
                  /\ firm'.phase \in {"EXPRESS", "LIVE"}
                  /\ firm'.phase = "LIVE" <=>
                       firm.expressPayoutsCount + 1 >= firm.config.expressPayoutsRequired
             ELSE /\ firm'.expressPayoutsCount = firm.expressPayoutsCount
                  /\ firm'.expressPayoutsTotal = firm.expressPayoutsTotal
                  /\ firm'.expressDaysAboveThreshold = DaysAbove
                  /\ firm'.phase = "EXPRESS"
          /\ firm'.liveReached =
               firm.liveReached + (IF firm'.phase = "LIVE" THEN 1 ELSE 0)
     /\ (firm.pc = "career" /\ firm.phase = "LIVE") =>
          /\ firm'.day = firm.day
          /\ firm'.rng = firm.rng
          /\ firm'.phase = "LIVE"]_vars

\* C26 at work: a trader who is LIVE after payouts that each took two days above the
\* threshold, with a day below the threshold among the days in EXPRESS
C26_Witness ==
  /\ firm.pc = "career"
  /\ firm.phase = "LIVE"
  /\ firm.config.expressDaysForPayout = 2
  /\ firm.expressPayoutsCount = firm.config.expressPayoutsRequired
  /\ firm.balance <
       firm.config.accountSize
       + 3 * firm.config.expressDaysForPayout * firm.config.expressPayoutsRequired

\* C27 as claimed: in the returned record evalAttempts is
\* totalTraders + evalBlown + expressBlown, and expressAttempts is evalPassed
C27_Original ==
  Returned =>
    /\ stats.evalAttempts = stats.totalTraders + stats.evalBlown + stats.expressBlown
    /\ stats.expressAttempts = stats.evalPassed

\* what the code returns: evalAttempts is as claimed, and expressAttempts counts the
\* EXPRESS blow-ups as well as the passed evaluations
C27_Counted ==
  Returned =>
    /\ stats.evalAttempts = stats.totalTraders + stats.evalBlown + stats.expressBlown
    /\ stats.expressAttempts = stats.evalPassed + stats.expressBlown

(***************************************************************************)
(* The range of the generator and of the indices drawn with it             *)
(* (SpecEngine)                                                            *)
(***************************************************************************)
\* a 32-bit word: the call returns it divided by 2^32, a number in [0, 1)
IsWord(w) == w[1] \in 0..(H - 1) /\ w[2] \in 0..(H - 1)

\* the calls generator i has answered in the batch it was handed to
BatchDraws(i) == IF batches[i] = Null THEN 0 ELSE Draws(batches[i], 1, Len(batches[i]))

\* the word returned by call number n of a generator built from the call's seed
WordOfCall(n) == OutputWord(AdvanceBy(createPRNG(call.config.seed), n))

\* the index drawn by call number n, in a pool of the size of the call's
IndexOfCall(n) == FloorTimes(WordOfCall(n), Len(call.trades))

RECURSIVE DaySum(_, _, _)
\* the P&L of a day of numTrades trades whose first index is drawn by call number n
DaySum(pnls, n, numTrades) ==
  IF numTrades = 0 THEN 0
  ELSE pnls[IndexOfCall(n) + 1] + DaySum(pnls, n + 1, numTrades - 1)

\* C28: whatever the seed, each call advances the generator's state by 0x6D2B79F5
\* modulo 2^32 and returns a 32-bit word over 2^32, a number in [0, 1); and with a
\* non-empty pool every index floor(rng() * poolSize) is in 0..poolSize - 1: those of
\* the trades of the runs of a batch, which under fixed_pnl move the curve by the
\* outcome at that index, and those of a simulated day of the prop-firm simulator
\* started where the generator stands
C28_GeneratorRange ==
  \A i \in Instances :
    gens[i] # Null =>
      /\ IsWord(gens[i])
      /\ gens[i] = AdvanceBy(createPRNG(call.config.seed), BatchDraws(i) + Len(emitted[i]))
      /\ \A k \in 1..Len(emitted[i]) :
           /\ IsWord(emitted[i][k])
           /\ emitted[i][k] = WordOfCall(BatchDraws(i) + k)
           /\ \A n \in 1..Len(StatisticsPools1) : FloorTimes(emitted[i][k], n) \in 0..(n - 1)
      /\ (batches[i] # Null /\ Len(call.trades) > 0) =>
           \A j \in 1..Len(batches[i]) :
             \A k \in 1..(Len(batches[i][j].equityCurve) - 1) :
               /\ IndexOfCall(Draws(batches[i], 1, j - 1) + k) \in 0..(Len(call.trades) - 1)
               /\ call.config.riskModel = "fixed_pnl" =>
                    batches[i][j].equityCurve[k + 1] - batches[i][j].equityCurve[k]
                      = call.trades[IndexOfCall(Draws(batches[i], 1, j - 1) + k) + 1].pnl
      /\ Len(call.trades) > 0 =>
           \A d \in {1, MaxTrades} :
             LET made      == BatchDraws(i) + Len(emitted[i])
                 numTrades == NumTrades(d, WordOfCall(made + 1))
                 pnls      == [k \in 1..Len(call.trades) |-> call.trades[k].pnl]
                 day       == simulateDay(pnls, gens[i], d)
             IN  /\ \A k \in 1..numTrades :
                      IndexOfCall(made + 1 + k) \in 0..(Len(call.trades) - 1)
                 /\ day.dailyPnL = DaySum(pnls, made + 2, numTrades)
                 /\ day.rng = AdvanceBy(gens[i], numTrades + 1)

\* C28 at work: a generator built from a negative seed, handed to a batch over a pool
\* of two outcomes in which both were drawn, and then called directly, its state
\* having wrapped around 2^32
C28_Witness ==
  /\ call.config.seed < 0
  /\ call.config.riskModel = "fixed_pnl"
  /\ Len(call.trades) = 2
  /\ batches[1] # Null
  /\ \E j \in 1..Len(batches[1]) :
       \E k \in 2..(Len(batches[1][j].equityCurve) - 1) :
         (batches[1][j].equityCurve[k + 1] < batches[1][j].equityCurve[k])
           # (batches[1][j].equityCurve[k] < batches[1][j].equityCurve[k - 1])
  /\ Len(emitted[1]) = MaxCalls
  /\ gens[1][1] < createPRNG(call.config.seed)[1]

(***************************************************************************)
(* Batches and slices of batches (SpecEngine)                              *)
(***************************************************************************)
\* the controller's loop with batches of the given size: each batch is asked for
\* min(size, remaining) runs, numbered from the length accumulated so far, and is
\* handed the generator the batch before left
RECURSIVE AccumulateAll(_, _, _, _, _)
AccumulateAll(pool, config, size, total, acc) ==
  IF Len(acc.all) >= total THEN acc
  ELSE AccumulateAll(pool, config, size, total,
                     Accumulate(acc.all,
                                runSimulationBatch(pool, config,
                                                   Min(size, total - Len(acc.all)),
                                                   Len(acc.all), acc.rng)))

\* C29: n1 runs with startIndex s and then n2 runs with startIndex s + n1, on the
\* same generator, are together the results of one call of n1 + n2 runs with
\* startIndex s, and leave the generator in the same state; so the sequence the
\* controller accumulates, numbered 0, 1, 2, ..., is the same for every batch size
C29_BatchSlicing ==
  \A i \in Instances :
    /\ batches[i] # Null =>
         /\ \A k \in 1..Len(batches[i]) : batches[i][k].id = call.startIndex + k - 1
         /\ \A n1 \in 0..call.batchSize :
              \A first \in {runSimulationBatch(call.trades, call.config, n1,
                                                call.startIndex,
                                                createPRNG(call.config.seed))} :
                \A second \in {runSimulationBatch(call.trades, call.config,
                                                   call.batchSize - n1,
                                                   call.startIndex + n1, first.rng)} :
                  /\ first.results \o second.results = batches[i]
                  /\ AdvanceBy(second.rng, Len(emitted[i])) = gens[i]
    /\ (gens[i] # Null /\ Len(call.trades) > 0) =>
         \A whole \in {Accumulate(<<>>, runSimulationBatch(call.trades, call.config,
                                                          MaxCalls + 1, 0, gens[i]))} :
           \A size \in 1..MaxCalls :
             AccumulateAll(call.trades, call.config, size, MaxCalls + 1,
                           [all |-> <<>>, rng |-> gens[i]]) = whole

\* C29 at work: a batch of several runs that differ, numbered from BATCH_SIZE, over
\* a pool of differing outcomes, the generator called again after it
C29_Witness ==
  /\ call.startIndex = BATCH_SIZE
  /\ Len(call.trades) > 1
  /\ batches[1] # Null
  /\ Len(batches[1]) > 1
  /\ batches[1][1].equityCurve # batches[1][2].equityCurve
  /\ Len(emitted[1]) > 0

(***************************************************************************)
(* Progress of a session (FairSpec)                                        *)
(***************************************************************************)
\* the batch runBatch would be handed were the pool empty
BatchOfNoTrades ==
  runSimulationBatch(<<>>, mcConfig, BatchCount(Len(resultsRef), mcConfig.numSimulations),
                     Len(resultsRef), SafeRng).results

====
